---- MODULE Spec2Model ----
(***************************************************************************)
(* cmgr-artifact-server: the artifact-cache pipeline.                      *)
(*                                                                         *)
(*   ArtifactDir --(notify debouncer)--> Watcher thread --extract/remove-->*)
(*   CacheDir, Watcher --tokio mpsc channel(32)--> Backend (selfhosted|s3) *)
(*                                                                         *)
(* File names, BuildIds and object keys are sequences of string tokens     *)
(* (".tar.gz" is one token), so that suffix trimming, path joining and     *)
(* key-prefix matching are computed the way the code computes them.        *)
(* A tarball's bytes are an abstract content number; BLAKE2b-512 and the   *)
(* tar reader are injective / fixed lookups on it.                         *)
(***************************************************************************)
EXTENDS Integers, Sequences, FiniteSets, TLC

VARIABLES
    artifacts,  \* ArtifactDir: file name -> content (domain = files present)
    cache,      \* CacheDir: directory id -> [sum, tree] (domain = dirs present)
    cfg,        \* run configuration: [backend, salt, dist]
    pc,         \* control position of the "main" task and of the "watcher" thread
    xt,         \* per thread: arguments and reads of a running extract_to
    sc,         \* locals of sync_cache
    remote,     \* the bucket: object key -> body (domain = objects present)
    cdn,        \* the invalidation paths sent to the CDN so far
    be,         \* locals of the backend's run
    faults,     \* how many remote calls may still fail
    fsq,        \* watcher_rx: debounced file events not yet received
    chan,       \* the tokio channel: BuildEvents sent and not yet received
    budget,     \* how many changes the external producer may still make
    nSent,      \* how many BuildEvents the Watcher has sent
    hist,       \* history: events received and in flight, startup milestones
    http        \* the selfhosted backend's last response

vars == <<artifacts, cache, cfg, pc, xt, sc, remote, cdn, be, faults,
          fsq, chan, budget, nSent, hist, http>>

\* What the cache manager (sync_cache, extract_to) leaves alone.
othervars == <<remote, cdn, be, faults, fsq, chan, budget, nSent, hist, http>>

(***************************************************************************)
(* Bounds of the model.                                                    *)
(***************************************************************************)
MaxContent == 2

Contents == 1..MaxContent

(***************************************************************************)
(* Names.                                                                  *)
(***************************************************************************)
TARGZ == ".tar.gz"

CHECKSUM_FILENAME == ".__checksum"

\* Option values: None, or Some(x) holding x.
None == <<>>

Some(x) == <<x>>

NoSalt == None

\* The file names the external producer may use in ArtifactDir.
NameB1 == <<"b1", TARGZ>>

NameB2 == <<"b2", TARGZ>>

NameB1Twice == <<"b1", TARGZ, TARGZ>>

NameBare == <<TARGZ>>

NameTxt == <<"b1", ".txt">>

\* str::ends_with
EndsWith(s, suf) ==
    /\ Len(s) >= Len(suf)
    /\ SubSeq(s, Len(s) - Len(suf) + 1, Len(s)) = suf

\* str::trim_end_matches: strips the suffix repeatedly.
RECURSIVE TrimEndMatches(_, _)
TrimEndMatches(s, suf) ==
    IF Len(suf) > 0 /\ EndsWith(s, suf)
    THEN TrimEndMatches(SubSeq(s, 1, Len(s) - Len(suf)), suf)
    ELSE s

\* The text of a token sequence (format!("{build_id}")).
RECURSIVE Text(_)
Text(s) == IF s = <<>> THEN "" ELSE Head(s) \o Text(Tail(s))

\* sha2::Sha256::digest(..).encode_hex(): one 64-character token, injective
\* on its input.
Sha256Hex(text) == <<"sha256(" \o text \o ")">>

\* A test that takes every file for a tarball.
IsArtifactTarballAnyName(filename, digest_salt) ==
    LET build_id == TrimEndMatches(filename, <<TARGZ>>)
    IN  IF digest_salt = NoSalt
        THEN Some(build_id)
        ELSE Some(Sha256Hex(Text(build_id) \o ":" \o digest_salt[1]))

\* is_artifact_tarball: the BuildId of a tarball name, None for other files.
is_artifact_tarball(filename, digest_salt) ==
    IF ~EndsWith(filename, <<TARGZ>>)
    THEN None
    ELSE LET build_id == TrimEndMatches(filename, <<TARGZ>>)
         IN  IF digest_salt = NoSalt
             THEN Some(build_id)
             ELSE Some(Sha256Hex(Text(build_id) \o ":" \o digest_salt[1]))

(***************************************************************************)
(* Tarballs, checksums, cache entries.                                     *)
(***************************************************************************)
\* get_tarball_checksum on bytes c: BLAKE2b-512, injective on the content.
Blake2b512(c) == <<"blake2b512", c>>

NoSum == <<>>

\* Archive::unpack of a well-formed tarball with content c: the regular
\* files it holds.  Different contents give different trees, and content 2k
\* holds a file that content 2k-1 does not.
TarPaths(c) == IF c % 2 = 1 THEN {"f1"} ELSE {"f1", "f2"}

Unpack(c) == {[path |-> p, data |-> c] : p \in TarPaths(c)}

\* A directory of CacheDir: its sentinel (.__checksum) and its other files.
EmptyDir == [sum |-> NoSum, tree |-> {}]

\* CacheDir itself is the directory with the empty id: cache_dir.push("")
\* names CacheDir.
Root == <<>>

\* fs::remove_dir_all(<CacheDir>/<d>): everything below the path goes.
RemoveDirAll(fs, d) ==
    IF d = Root
    THEN [x \in {} |-> EmptyDir]
    ELSE [x \in (DOMAIN fs) \ {d} |-> fs[x]]

\* fs::create_dir_all(<CacheDir>/<d>): the directory and its parents.
CreateDirAll(fs, d) ==
    [x \in (DOMAIN fs) \cup {d, Root} |-> IF x \in DOMAIN fs THEN fs[x] ELSE EmptyDir]

\* Writing files into an existing directory.
WriteTree(fs, d, files) ==
    [fs EXCEPT ![d].tree =
        {f \in @ : f.path \notin {g.path : g \in files}} \cup files]

WriteSum(fs, d, sum) == [fs EXCEPT ![d].sum = sum]

\* get_cache_dir_checksum: fs::read(<dir>/.__checksum); None when it fails.
get_cache_dir_checksum(fs, d) ==
    IF d \in DOMAIN fs /\ fs[d].sum # NoSum THEN Some(fs[d].sum) ELSE None

\* get_tarball_checksum: None when the tarball cannot be opened.
get_tarball_checksum(dir, name) ==
    IF name \in DOMAIN dir THEN Some(Blake2b512(dir[name])) ELSE None

\* The regular files of directory d: its tree and, when written, its sentinel.
DirFiles(fs, d) ==
    {[dir |-> d, file |-> f.path] : f \in fs[d].tree}
    \cup (IF fs[d].sum # NoSum THEN {[dir |-> d, file |-> CHECKSUM_FILENAME]} ELSE {})

\* The bytes of a regular file.
FileBody(fs, e) ==
    IF e.file = CHECKSUM_FILENAME
    THEN fs[e.dir].sum
    ELSE LET f == CHOOSE g \in fs[e.dir].tree : g.path = e.file
         IN  <<"bytes", f.data>>

FileExists(fs, e) == e.dir \in DOMAIN fs /\ e \in DirFiles(fs, e.dir)

NoBackend == [cache_dirs |-> {}, ids |-> {}, token |-> None, todo |-> {},
              cur |-> <<>>, ops |-> <<>>, walk |-> None, ret |-> "none",
              cut |-> {}]

NoHistory == [recvd |-> <<>>, inflight |-> {}, preflight |-> FALSE, synced |-> FALSE,
              calls |-> <<>>, failed |-> 0, restarts |-> 0, snap |-> <<>>]

NoResponse == [status |-> 0, disposition |-> FALSE, body |-> None]

(***************************************************************************)
(* extract_to, one filesystem call per step; thread t is "main" (inside    *)
(* sync_cache) or "watcher" (inside watch_dir).                            *)
(***************************************************************************)
Threads == {"main", "watcher"}

NoExtract == [dir |-> Root, name |-> <<>>, kind |-> "none"]

\* main has returned: the process, and the Watcher thread with it, is gone.
Exited == pc["main"] \in {"exit_ok", "exit_err"}

\* Where extract_to's caller continues: sync_cache's loop, or the Watcher's
\* blocking_send.
AfterExtract(t) == IF t = "main" THEN "sync_tarballs" ELSE "w_send"

\* An Err out of extract_to: sync_cache propagates it to main, which exits
\* nonzero; the Watcher's unwrap_or_else panics its thread.
ExtractFailed(t) == IF t = "main" THEN "exit_err" ELSE "panicked"

\* An extract_to that unpacks over whatever the directory holds.
XKeepOld(t) ==
    /\ pc[t] = "x_rm"
    /\ ~Exited
    /\ pc' = [pc EXCEPT ![t] = "x_mkdir"]
    /\ UNCHANGED <<artifacts, cache, cfg, xt, sc, othervars>>

\* maybe_remove_dir(cache_dir)?  (NotFound is squashed)
XRemove(t) ==
    /\ pc[t] = "x_rm"
    /\ ~Exited
    /\ cache' = RemoveDirAll(cache, xt[t].dir)
    /\ pc' = [pc EXCEPT ![t] = "x_mkdir"]
    /\ UNCHANGED <<artifacts, cfg, xt, sc, othervars>>

\* An extract_to that writes the sentinel as soon as the directory exists.
XCreateWithSum(t) ==
    /\ pc[t] = "x_mkdir"
    /\ ~Exited
    /\ cache' = IF xt[t].name \in DOMAIN artifacts
                THEN WriteSum(CreateDirAll(cache, xt[t].dir), xt[t].dir,
                              Blake2b512(artifacts[xt[t].name]))
                ELSE CreateDirAll(cache, xt[t].dir)
    /\ pc' = [pc EXCEPT ![t] = "x_unpack"]
    /\ UNCHANGED <<artifacts, cfg, xt, sc, othervars>>

\* fs::create_dir_all(cache_dir)?
XCreate(t) ==
    /\ pc[t] = "x_mkdir"
    /\ ~Exited
    /\ cache' = CreateDirAll(cache, xt[t].dir)
    /\ pc' = [pc EXCEPT ![t] = "x_unpack"]
    /\ UNCHANGED <<artifacts, cfg, xt, sc, othervars>>

\* File::open(tarball)?; Archive::new(GzDecoder::new(..)).unpack(cache_dir)?
\* The first read of the tarball.
XUnpack(t) ==
    /\ pc[t] = "x_unpack"
    /\ ~Exited
    /\ IF xt[t].name \in DOMAIN artifacts /\ xt[t].dir \in DOMAIN cache
       THEN /\ cache' = WriteTree(cache, xt[t].dir, Unpack(artifacts[xt[t].name]))
            /\ pc' = [pc EXCEPT ![t] = "x_sum"]
            /\ UNCHANGED <<xt, sc>>
       ELSE /\ pc' = [pc EXCEPT ![t] = ExtractFailed(t)]
            /\ xt' = [xt EXCEPT ![t] = NoExtract]
            /\ UNCHANGED <<cache, sc>>
    /\ UNCHANGED <<artifacts, cfg, othervars>>

\* fs::write(<cache_dir>/.__checksum, get_tarball_checksum(tarball)?)?
\* The second read of the tarball, by path.
XChecksum(t) ==
    /\ pc[t] = "x_sum"
    /\ ~Exited
    /\ LET sum == get_tarball_checksum(artifacts, xt[t].name)
       IN  IF sum # None /\ xt[t].dir \in DOMAIN cache
           THEN /\ cache' = WriteSum(cache, xt[t].dir, sum[1])
                /\ pc' = [pc EXCEPT ![t] = AfterExtract(t)]
                /\ IF t = "main"
                   THEN /\ sc' = [sc EXCEPT !.todo = @ \ {xt[t].dir}]
                        /\ xt' = [xt EXCEPT ![t] = NoExtract]
                   ELSE UNCHANGED <<sc, xt>>
           ELSE /\ pc' = [pc EXCEPT ![t] = ExtractFailed(t)]
                /\ xt' = [xt EXCEPT ![t] = NoExtract]
                /\ UNCHANGED <<cache, sc>>
    /\ UNCHANGED <<artifacts, cfg, othervars>>

(***************************************************************************)
(* sync_cache.                                                             *)
(***************************************************************************)
NoSync == [tarballs |-> <<>>, cache_dirs |-> {}, todo |-> {}, orphans |-> {},
           outdated |-> {}]

\* The BuildIds of the tarballs in a directory listing.
TarballIds(dir, salt) ==
    {is_artifact_tarball(n, salt)[1] :
        n \in {m \in DOMAIN dir : is_artifact_tarball(m, salt) # None}}

\* The maps HashMap::insert can build from read_dir(artifact_dir): one
\* tarball per BuildId; of two names with one BuildId the later in the
\* directory's (unspecified) order stays.
TarballMaps(dir, salt) ==
    {tb \in [TarballIds(dir, salt) -> DOMAIN dir] :
        \A b \in DOMAIN tb : is_artifact_tarball(tb[b], salt) = Some(b)}

\* A main that spawns the Watcher thread before it calls sync_cache.
SyncScanAfterWatchDir ==
    /\ pc["main"] = "sync_scan"
    /\ IF Root \in DOMAIN cache
       THEN /\ \E tb \in TarballMaps(artifacts, cfg.salt) :
                  sc' = [tarballs |-> tb,
                         cache_dirs |-> (DOMAIN cache) \ {Root},
                         todo |-> DOMAIN tb,
                         orphans |-> {},
                         outdated |-> {}]
            /\ cache' = [cache EXCEPT ![Root] = EmptyDir]
            /\ pc' = [pc EXCEPT !["main"] = "sync_tarballs", !["watcher"] = "w_init"]
       ELSE /\ pc' = [pc EXCEPT !["main"] = "exit_err"]
            /\ UNCHANGED <<cache, sc>>
    /\ UNCHANGED <<artifacts, cfg, xt, othervars>>

\* Lines 86-108: collect the tarballs and the cache directories, removing
\* every non-directory child of CacheDir.
SyncScan ==
    /\ pc["main"] = "sync_scan"
    /\ IF Root \in DOMAIN cache
       THEN /\ \E tb \in TarballMaps(artifacts, cfg.salt) :
                  sc' = [tarballs |-> tb,
                         cache_dirs |-> (DOMAIN cache) \ {Root},
                         todo |-> DOMAIN tb,
                         orphans |-> {},
                         outdated |-> {}]
            /\ cache' = [cache EXCEPT ![Root] = EmptyDir]
            /\ pc' = [pc EXCEPT !["main"] = "sync_tarballs"]
       ELSE /\ pc' = [pc EXCEPT !["main"] = "exit_err"]
            /\ UNCHANGED <<cache, sc>>
    /\ UNCHANGED <<artifacts, cfg, xt, othervars>>

\* Lines 111-123, one iteration up to the call of extract_to.  sc.outdated
\* (history) collects the BuildIds whose existing directory was found with
\* its sentinel missing or different from the tarball's checksum.
SyncTarball ==
    /\ pc["main"] = "sync_tarballs"
    /\ \E b \in sc.todo :
          LET tsum == get_tarball_checksum(artifacts, sc.tarballs[b])
              csum == get_cache_dir_checksum(cache, b)
          IN  IF b \in sc.cache_dirs /\ (tsum = None \/ csum = None)
              THEN \* one of the two `?` returns the Err
                   /\ pc' = [pc EXCEPT !["main"] = "exit_err"]
                   /\ sc' = [sc EXCEPT !.outdated =
                                IF tsum # None THEN @ \cup {b} ELSE @]
                   /\ UNCHANGED xt
              ELSE IF b \in sc.cache_dirs /\ tsum = csum
              THEN \* continue
                   /\ sc' = [sc EXCEPT !.todo = @ \ {b}]
                   /\ UNCHANGED <<pc, xt>>
              ELSE /\ xt' = [xt EXCEPT !["main"] =
                                [dir |-> b, name |-> sc.tarballs[b], kind |-> "sync"]]
                   /\ pc' = [pc EXCEPT !["main"] = "x_rm"]
                   /\ sc' = [sc EXCEPT !.outdated =
                                IF b \in sc.cache_dirs THEN @ \cup {b} ELSE @]
    /\ UNCHANGED <<artifacts, cache, cfg, othervars>>

\* Lines 126-131 begin once the first loop has visited every tarball.
SyncTarballsDone ==
    /\ pc["main"] = "sync_tarballs"
    /\ sc.todo = {}
    /\ sc' = [sc EXCEPT !.orphans =
                 {b \in sc.cache_dirs : b \notin DOMAIN sc.tarballs}]
    /\ pc' = [pc EXCEPT !["main"] = "sync_stale"]
    /\ UNCHANGED <<artifacts, cache, cfg, xt, othervars>>

\* maybe_remove_dir of one cache directory without a tarball.
SyncStale ==
    /\ pc["main"] = "sync_stale"
    /\ \E b \in sc.orphans :
          /\ cache' = RemoveDirAll(cache, b)
          /\ sc' = [sc EXCEPT !.orphans = @ \ {b}]
    /\ UNCHANGED <<artifacts, cfg, pc, xt, othervars>>

\* Ok(()) out of sync_cache.
SyncReturn ==
    /\ pc["main"] = "sync_stale"
    /\ sc.orphans = {}
    /\ pc' = [pc EXCEPT !["main"] = "synced"]
    /\ UNCHANGED <<artifacts, cache, cfg, xt, sc, othervars>>

(***************************************************************************)
(* sync_cache alone, from every initial ArtifactDir and CacheDir.          *)
(***************************************************************************)
SyncNames == {NameB1, NameB2, NameB1Twice, NameBare, NameTxt}

Salts == {NoSalt, Some("S")}

ArtifactDirs(names) ==
    UNION {[S -> Contents] : S \in SUBSET names}

\* What a CacheDir directory may hold when the process starts: a completed
\* extraction, an extraction cut short before the sentinel was written, or a
\* tree under the sentinel of another content.
InitialEntries ==
    {[sum |-> Blake2b512(c), tree |-> Unpack(c)] : c \in Contents}
    \cup {[sum |-> NoSum, tree |-> Unpack(1)]}
    \cup {[sum |-> Blake2b512(2), tree |-> Unpack(1)]}

StrayFile == [path |-> "stray", data |-> 0]

CacheDirs(ids) ==
    UNION {{[x \in S \cup {Root} |->
                IF x = Root THEN [sum |-> NoSum, tree |-> strays] ELSE f[x]] :
              f \in [S -> InitialEntries], strays \in {{}, {StrayFile}}} :
           S \in SUBSET ids}

InitSync ==
    /\ cfg \in [backend : {"none"}, salt : Salts, dist : {FALSE}, prefix : {<<>>}]
    /\ artifacts \in ArtifactDirs(SyncNames)
    /\ cache \in CacheDirs({is_artifact_tarball(NameB1, cfg.salt)[1], <<"old">>})
    /\ pc = [main |-> "sync_scan", watcher |-> "off"]
    /\ xt = [t \in Threads |-> NoExtract]
    /\ sc = NoSync
    /\ remote = <<>>
    /\ cdn = {}
    /\ be = NoBackend
    /\ faults = 0
    /\ fsq = <<>>
    /\ chan = <<>>
    /\ budget = 0
    /\ nSent = 0
    /\ hist = NoHistory
    /\ http = NoResponse

NextSync ==
    \/ SyncScan
    \/ SyncTarball
    \/ SyncTarballsDone
    \/ SyncStale
    \/ SyncReturn
    \/ XRemove("main")
    \/ XCreate("main")
    \/ XUnpack("main")
    \/ XChecksum("main")

SpecSync == InitSync /\ [][NextSync]_vars

\* The tarballs present in ArtifactDir.
Tarballs == {n \in DOMAIN artifacts : is_artifact_tarball(n, cfg.salt) # None}

BuildIdOf(n) == is_artifact_tarball(n, cfg.salt)[1]

\* The CacheEntry of tarball n is complete and current.
EntryCurrent(n) ==
    /\ BuildIdOf(n) \in DOMAIN cache
    /\ cache[BuildIdOf(n)].sum = Blake2b512(artifacts[n])

\* No two tarballs present share a BuildId and none has the empty BuildId.
DistinctBuildIds ==
    \A n \in Tarballs :
        /\ BuildIdOf(n) # Root
        /\ \A m \in Tarballs : BuildIdOf(m) = BuildIdOf(n) => m = n

\* C1: after a successful sync_cache, (i) every tarball of ArtifactDir has
\* a CacheEntry whose sentinel equals the tarball's checksum, (ii) every
\* directory directly under CacheDir belongs to a tarball, and (iii) CacheDir
\* has no non-directory children.
C1_SyncCacheConverges ==
    pc["main"] = "synced" =>
        /\ \A n \in Tarballs : EntryCurrent(n)
        /\ \A d \in (DOMAIN cache) \ {Root} : \E n \in Tarballs : BuildIdOf(n) = d
        /\ Root \in DOMAIN cache /\ cache[Root] = EmptyDir

\* The same convergence, for the directories in which the tarball names give
\* distinct, non-empty BuildIds (what is left of C1 once the BuildId
\* derivation is set aside).
SyncCacheConvergesOnDistinctIds ==
    DistinctBuildIds => C1_SyncCacheConverges

\* C2: a CacheEntry that sync_cache finds with its sentinel missing or
\* different from the tarball's checksum is re-extracted, and sync_cache
\* completes successfully.  (Stated for tarball names with distinct,
\* non-empty BuildIds, so that only the stale entry is at stake.)
C2_StaleEntryReextracted ==
    DistinctBuildIds =>
        \A b \in sc.outdated :
            /\ pc["main"] # "exit_err"
            /\ pc["main"] = "synced" =>
                   /\ b \in DOMAIN cache
                   /\ cache[b].sum = Blake2b512(artifacts[sc.tarballs[b]])
                   /\ cache[b].tree = Unpack(artifacts[sc.tarballs[b]])

\* The part of C2 the code does implement: an entry whose sentinel is
\* present but different is re-extracted.
MismatchedEntryReextracted ==
    DistinctBuildIds =>
        \A b \in sc.outdated :
            pc["main"] = "synced" =>
                /\ b \in DOMAIN cache
                /\ cache[b].sum = Blake2b512(artifacts[sc.tarballs[b]])
                /\ cache[b].tree = Unpack(artifacts[sc.tarballs[b]])

(***************************************************************************)
(* The object store.  Keys are token sequences; "/" is a token.            *)
(***************************************************************************)
\* A listing response holds at most this many keys (1000 at the store; the
\* files per build of the model are scaled alike).
MaxKeys == 2

SLASH == "/"

\* PathBuf::push of a relative path.
PathPush(path, x) ==
    IF path = <<>> \/ path[Len(path)] = SLASH
    THEN path \o x
    ELSE path \o <<SLASH>> \o x

IsPrefix(pre, k) == Len(pre) <= Len(k) /\ SubSeq(k, 1, Len(pre)) = pre

\* The byte order of the tokens that occur in keys.
Alphabet ==
    <<CHECKSUM_FILENAME, SLASH, "b1", "b2", "f1", "f2", "iam_test", "old", "p",
      Sha256Hex(":S")[1], Sha256Hex("b1:S")[1], Sha256Hex("b2:S")[1], "stray">>

Rank(t) == CHOOSE i \in 1..Len(Alphabet) : Alphabet[i] = t

\* The store lists keys in byte order.
RECURSIVE KeyLess(_, _)
KeyLess(a, b) ==
    IF b = <<>> THEN FALSE
    ELSE IF a = <<>> THEN TRUE
    ELSE IF Head(a) = Head(b) THEN KeyLess(Tail(a), Tail(b))
    ELSE Rank(Head(a)) < Rank(Head(b))

\* The first n keys of a set, in listing order.
FirstN(S, n) == {k \in S : Cardinality({j \in S : KeyLess(j, k)}) < n}

LastKey(S) == CHOOSE k \in S : \A j \in S : j = k \/ KeyLess(j, k)

PutObject(store, key, body) ==
    [k \in (DOMAIN store) \cup {key} |-> IF k = key THEN body ELSE store[k]]

DeleteObjects(store, keys) == [k \in (DOMAIN store) \ keys |-> store[k]]

\* GetObject: None when the key does not exist.
GetObject(store, key) == IF key \in DOMAIN store THEN Some(store[key]) ELSE None

\* ListObjectsV2 with a prefix and no continuation: one response.
ListObjects(store, prefix) ==
    FirstN({k \in DOMAIN store : IsPrefix(prefix, k)}, MaxKeys)

\* The index of the first "/" of a sequence, 0 when it has none.
FirstSlash(r) ==
    IF \E i \in 1..Len(r) : r[i] = SLASH
    THEN CHOOSE i \in 1..Len(r) : r[i] = SLASH /\ \A j \in 1..(i - 1) : r[j] # SLASH
    ELSE 0

\* ListObjectsV2 with delimiter '/': every key below the prefix is listed as
\* itself (contents) or rolled up into its common prefix.
DelimitedEntry(prefix, k) ==
    LET rest == SubSeq(k, Len(prefix) + 1, Len(k))
        i == FirstSlash(rest)
    IN  IF i = 0
        THEN [common |-> FALSE, key |-> k]
        ELSE [common |-> TRUE, key |-> prefix \o SubSeq(rest, 1, i)]

DelimitedEntries(store, prefix) ==
    {DelimitedEntry(prefix, k) : k \in {j \in DOMAIN store : IsPrefix(prefix, j)}}

\* One page of the delimited listing after the continuation token.
DelimitedPage(store, prefix, token) ==
    LET all == {e.key : e \in DelimitedEntries(store, prefix)}
        after == IF token = None THEN all ELSE {k \in all : KeyLess(token[1], k)}
        page == FirstN(after, MaxKeys)
    IN  [common_prefixes |->
            {e.key : e \in {x \in DelimitedEntries(store, prefix) :
                               x.common /\ x.key \in page}},
         is_truncated |-> Cardinality(after) > MaxKeys,
         next_token |-> IF page = {} THEN token ELSE Some(LastKey(page))]

\* p.prefix.strip_prefix(path_prefix).trim_end_matches('/')
BucketBuildId(prefix, common) ==
    TrimEndMatches(SubSeq(common, Len(prefix) + 1, Len(common)), <<SLASH>>)

(***************************************************************************)
(* S3Backend.                                                              *)
(***************************************************************************)
\* A normalization that strips one leading slash only.
NormalizePrefixOnce(opt) ==
    LET t == IF opt # <<>> /\ Head(opt) = SLASH THEN Tail(opt) ELSE opt
    IN  IF t # <<>> /\ t[Len(t)] # SLASH THEN t \o <<SLASH>> ELSE t

\* S3Backend::new: the normalized path prefix.
NormalizePrefix(opt) ==
    LET RECURSIVE TrimStart(_)
        TrimStart(x) == IF x # <<>> /\ Head(x) = SLASH THEN TrimStart(Tail(x)) ELSE x
        t == TrimStart(opt)
    IN  IF t # <<>> /\ t[Len(t)] # SLASH THEN t \o <<SLASH>> ELSE t

\* format!("{}{}/", self.path_prefix, build)
BucketDir(build) == cfg.prefix \o build \o <<SLASH>>

\* A backend that reads the build's first file as its remote sentinel.
ChecksumKeyOfFile(build) == cfg.prefix \o build \o <<SLASH, "f1">>

\* format!("{}{}/{}", &self.path_prefix, build, CHECKSUM_FILENAME)
ChecksumKey(build) == cfg.prefix \o build \o <<SLASH, CHECKSUM_FILENAME>>

\* upload_cache_dir's key: path_prefix pushed with build and relative path.
UploadKey(build, e) ==
    LET rel == IF e.dir = build THEN <<e.file>> ELSE e.dir \o <<SLASH, e.file>>
    IN  PathPush(PathPush(cfg.prefix, build), rel)

\* WalkDir::new(<CacheDir>/<build>).min_depth(1): the regular files below.
WalkFiles(fs, build) ==
    IF build = Root
    THEN UNION {DirFiles(fs, d) : d \in DOMAIN fs}
    ELSE DirFiles(fs, build)

\* format!("/{}{}*", self.path_prefix, build)
InvalidationPath(build) == <<SLASH>> \o cfg.prefix \o build \o <<"*">>

\* What the S3 backend leaves alone, but for the channel it receives from.
localvars == <<artifacts, cache, cfg, xt, sc, fsq, budget, nSent, http>>

\* History: the remote actions issued so far for the event being handled.
LogCall(op) ==
    IF be.ret = "s3_recv" THEN [hist EXCEPT !.calls = Append(@, op)] ELSE hist

\* The awaited SDK calls of the backend, each of which may return an error.
AtRemoteCall ==
    \/ pc["main"] \in {"s3_preflight", "s3_sync_list"}
    \/ /\ pc["main"] = "s3_op"
       /\ be.ops # <<>>
       /\ \/ Head(be.ops) = "delete"
          \/ Head(be.ops) = "upload" /\ be.walk # None /\ be.walk # Some({})
          \/ Head(be.ops) = "invalidate" /\ cfg.dist

\* A run that logs a failed call of the preflight and goes on.
S3CallFailsPreflightGoesOn ==
    /\ AtRemoteCall
    /\ faults > 0
    /\ faults' = faults - 1
    /\ pc' = [pc EXCEPT !["main"] = IF pc["main"] = "s3_preflight" THEN "s3_sync_dirs" ELSE "exit_err"]
    /\ hist' = [hist EXCEPT !.failed = @ + 1]
    /\ IF pc["main"] = "s3_preflight"
       THEN \E put \in BOOLEAN :
               remote' = IF put
                         THEN PutObject(remote, cfg.prefix \o <<"iam_test">>, <<"bytes", 0>>)
                         ELSE remote
       ELSE remote' = remote
    /\ UNCHANGED <<localvars, chan, cdn, be>>

\* A remote call returns an error: `?` returns it out of run, main exits
\* nonzero.  A failed preflight may have put its test object already.
S3CallFails ==
    /\ AtRemoteCall
    /\ faults > 0
    /\ faults' = faults - 1
    /\ pc' = [pc EXCEPT !["main"] = "exit_err"]
    /\ hist' = [hist EXCEPT !.failed = @ + 1]
    /\ IF pc["main"] = "s3_preflight"
       THEN \E put \in BOOLEAN :
               remote' = IF put
                         THEN PutObject(remote, cfg.prefix \o <<"iam_test">>, <<"bytes", 0>>)
                         ELSE remote
       ELSE remote' = remote
    /\ UNCHANGED <<localvars, chan, cdn, be>>

\* A run that enters its event loop straight after the preflight.
S3TestPermissionsThenRecv ==
    /\ pc["main"] = "s3_preflight"
    /\ remote' = DeleteObjects(PutObject(remote, cfg.prefix \o <<"iam_test">>,
                                         <<"bytes", 0>>),
                               {cfg.prefix \o <<"iam_test">>})
    /\ cdn' = IF cfg.dist
              THEN cdn \cup {<<SLASH>> \o cfg.prefix \o <<"iam_test">>}
              ELSE cdn
    /\ pc' = [pc EXCEPT !["main"] = "s3_recv"]
    /\ hist' = [hist EXCEPT !.preflight = TRUE]
    /\ UNCHANGED <<localvars, chan, be, faults>>

\* test_permissions, every call succeeding: the test object is put, read
\* back and deleted; one invalidation when a distribution is configured.
S3TestPermissions ==
    /\ pc["main"] = "s3_preflight"
    /\ remote' = DeleteObjects(PutObject(remote, cfg.prefix \o <<"iam_test">>,
                                         <<"bytes", 0>>),
                               {cfg.prefix \o <<"iam_test">>})
    /\ cdn' = IF cfg.dist
              THEN cdn \cup {<<SLASH>> \o cfg.prefix \o <<"iam_test">>}
              ELSE cdn
    /\ pc' = [pc EXCEPT !["main"] = "s3_sync_dirs"]
    /\ hist' = [hist EXCEPT !.preflight = TRUE]
    /\ UNCHANGED <<localvars, chan, be, faults>>

\* synchronize, lines 300-311: the directories directly under CacheDir.
S3SyncDirs ==
    /\ pc["main"] = "s3_sync_dirs"
    /\ IF Root \in DOMAIN cache
       THEN /\ be' = [NoBackend EXCEPT !.cache_dirs = (DOMAIN cache) \ {Root}]
            /\ pc' = [pc EXCEPT !["main"] = "s3_sync_list"]
       ELSE /\ pc' = [pc EXCEPT !["main"] = "exit_err"]
            /\ UNCHANGED be
    /\ UNCHANGED <<localvars, chan, hist, remote, cdn, faults>>

\* A synchronize that reads the first response of the listing only.
S3SyncListFirstPage ==
    /\ pc["main"] = "s3_sync_list"
    /\ LET resp == DelimitedPage(remote, cfg.prefix, be.token)
           ids == be.ids \cup
                    {BucketBuildId(cfg.prefix, c) : c \in resp.common_prefixes}
       IN  /\ be' = [be EXCEPT !.ids = ids, !.token = None,
                                !.todo = be.cache_dirs]
           /\ pc' = [pc EXCEPT !["main"] = "s3_sync_local"]
    /\ UNCHANGED <<localvars, chan, hist, remote, cdn, faults>>

\* synchronize, lines 314-353: one response of the delimited listing; the
\* loop continues with the continuation token while is_truncated.
S3SyncListPage ==
    /\ pc["main"] = "s3_sync_list"
    /\ LET resp == DelimitedPage(remote, cfg.prefix, be.token)
           ids == be.ids \cup
                    {BucketBuildId(cfg.prefix, c) : c \in resp.common_prefixes}
       IN  IF resp.is_truncated
           THEN /\ be' = [be EXCEPT !.ids = ids, !.token = resp.next_token]
                /\ UNCHANGED pc
           ELSE /\ be' = [be EXCEPT !.ids = ids, !.token = None,
                                    !.todo = be.cache_dirs]
                /\ pc' = [pc EXCEPT !["main"] = "s3_sync_local"]
    /\ UNCHANGED <<localvars, chan, hist, remote, cdn, faults>>

\* synchronize, lines 356-378: one local build.  A GetObject error counts as
\* a missing remote sentinel (get_bucket_dir_checksum maps Err to None).
S3SyncLocal ==
    /\ pc["main"] = "s3_sync_local"
    /\ \E b \in be.todo :
         \E get_fails \in {FALSE, faults > 0 /\ b \in be.ids} :
          LET bucket_checksum ==
                  IF get_fails THEN None ELSE GetObject(remote, ChecksumKey(b))
              local_checksum == get_cache_dir_checksum(cache, b)
          IN  /\ faults' = IF get_fails THEN faults - 1 ELSE faults
              /\ hist' = IF get_fails THEN [hist EXCEPT !.failed = @ + 1] ELSE hist
              /\ IF b \in be.ids /\ bucket_checksum # None /\ local_checksum = None
                 THEN \* get_cache_dir_checksum(build_cache_dir)? returns the Err
                      /\ pc' = [pc EXCEPT !["main"] = "exit_err"]
                      /\ UNCHANGED be
                 ELSE IF b \in be.ids /\ bucket_checksum # None
                         /\ bucket_checksum = local_checksum
                 THEN \* continue
                      /\ be' = [be EXCEPT !.todo = @ \ {b}]
                      /\ UNCHANGED pc
                 ELSE /\ be' = [be EXCEPT
                                  !.todo = @ \ {b},
                                  !.cur = b,
                                  !.ops = IF b \in be.ids
                                          THEN <<"delete", "upload", "invalidate">>
                                          ELSE <<"upload">>,
                                  !.ret = "s3_sync_local"]
                      /\ pc' = [pc EXCEPT !["main"] = "s3_op"]
    /\ UNCHANGED <<localvars, chan, remote, cdn>>

\* The first loop is over: the second visits the remote builds.
S3SyncLocalDone ==
    /\ pc["main"] = "s3_sync_local"
    /\ be.todo = {}
    /\ be' = [be EXCEPT !.todo = {b \in be.ids : b \notin be.cache_dirs}]
    /\ pc' = [pc EXCEPT !["main"] = "s3_sync_remote"]
    /\ UNCHANGED <<localvars, chan, hist, remote, cdn, faults>>

\* A synchronize that invalidates a remote-only build without deleting it.
S3SyncRemoteKeepsObjects ==
    /\ pc["main"] = "s3_sync_remote"
    /\ \E b \in be.todo :
          be' = [be EXCEPT !.todo = @ \ {b}, !.cur = b,
                           !.ops = <<"invalidate">>,
                           !.ret = "s3_sync_remote"]
    /\ pc' = [pc EXCEPT !["main"] = "s3_op"]
    /\ UNCHANGED <<localvars, chan, hist, remote, cdn, faults>>

\* synchronize, lines 381-390: one remote build without a local cache.
S3SyncRemote ==
    /\ pc["main"] = "s3_sync_remote"
    /\ \E b \in be.todo :
          be' = [be EXCEPT !.todo = @ \ {b}, !.cur = b,
                           !.ops = <<"delete", "invalidate">>,
                           !.ret = "s3_sync_remote"]
    /\ pc' = [pc EXCEPT !["main"] = "s3_op"]
    /\ UNCHANGED <<localvars, chan, hist, remote, cdn, faults>>

\* Ok(()) out of synchronize: run enters its event loop.
S3SyncReturn ==
    /\ pc["main"] = "s3_sync_remote"
    /\ be.todo = {}
    /\ pc' = [pc EXCEPT !["main"] = "s3_recv"]
    /\ hist' = [hist EXCEPT !.synced = TRUE]
    /\ UNCHANGED <<localvars, chan, remote, cdn, be, faults>>

\* A delete_bucket_dir that sends its batch delete even when the listing is
\* empty: the store rejects a DeleteObjects request without keys.
S3DeleteBucketDirEmptyBatch ==
    /\ pc["main"] = "s3_op"
    /\ be.ops # <<>> /\ Head(be.ops) = "delete"
    /\ IF ListObjects(remote, BucketDir(be.cur)) = {}
       THEN /\ pc' = [pc EXCEPT !["main"] = "exit_err"]
            /\ UNCHANGED <<remote, be, hist>>
       ELSE /\ remote' = DeleteObjects(remote, ListObjects(remote, BucketDir(be.cur)))
            /\ be' = [be EXCEPT
                        !.ops = Tail(@),
                        !.cut = IF ListObjects(remote, BucketDir(be.cur))
                                    # {k \in DOMAIN remote : IsPrefix(BucketDir(be.cur), k)}
                                THEN @ \cup {be.cur} ELSE @]
            /\ hist' = LogCall("delete")
            /\ UNCHANGED pc
    /\ UNCHANGED <<localvars, chan, cdn, faults>>

\* delete_bucket_dir: one listing response, then one batch delete of the
\* listed keys (none when the listing is empty).  be.cut (history) collects
\* the builds whose listing response did not hold all their keys.
S3DeleteBucketDir ==
    /\ pc["main"] = "s3_op"
    /\ be.ops # <<>> /\ Head(be.ops) = "delete"
    /\ remote' = DeleteObjects(remote, ListObjects(remote, BucketDir(be.cur)))
    /\ be' = [be EXCEPT
                !.ops = Tail(@),
                !.cut = IF ListObjects(remote, BucketDir(be.cur))
                            # {k \in DOMAIN remote : IsPrefix(BucketDir(be.cur), k)}
                        THEN @ \cup {be.cur} ELSE @]
    /\ hist' = LogCall("delete")
    /\ UNCHANGED <<localvars, chan, pc, cdn, faults>>

\* upload_cache_dir: WalkDir over the build's cache directory; a directory
\* that does not exist makes the walk yield an Err.
S3UploadWalk ==
    /\ pc["main"] = "s3_op"
    /\ be.ops # <<>> /\ Head(be.ops) = "upload" /\ be.walk = None
    /\ IF be.cur \in DOMAIN cache
       THEN /\ be' = [be EXCEPT !.walk = Some(WalkFiles(cache, be.cur))]
            /\ UNCHANGED pc
       ELSE /\ pc' = [pc EXCEPT !["main"] = "exit_err"]
            /\ UNCHANGED be
    /\ UNCHANGED <<localvars, chan, hist, remote, cdn, faults>>

\* upload_cache_dir: open one walked file and put it.
S3UploadFile ==
    /\ pc["main"] = "s3_op"
    /\ be.ops # <<>> /\ Head(be.ops) = "upload" /\ be.walk # None
    /\ \E e \in be.walk[1] :
          IF FileExists(cache, e)
          THEN /\ remote' = PutObject(remote, UploadKey(be.cur, e), FileBody(cache, e))
               /\ be' = [be EXCEPT !.walk = Some(be.walk[1] \ {e})]
               /\ UNCHANGED pc
          ELSE /\ pc' = [pc EXCEPT !["main"] = "exit_err"]
               /\ UNCHANGED <<remote, be>>
    /\ UNCHANGED <<localvars, chan, hist, cdn, faults>>

\* Ok(()) out of upload_cache_dir.
S3UploadDone ==
    /\ pc["main"] = "s3_op"
    /\ be.ops # <<>> /\ Head(be.ops) = "upload" /\ be.walk = Some({})
    /\ be' = [be EXCEPT !.walk = None, !.ops = Tail(@)]
    /\ hist' = LogCall("upload")
    /\ UNCHANGED <<localvars, chan, pc, remote, cdn, faults>>

\* create_invalidation: one invalidation when a CloudFront client exists.
S3CreateInvalidation ==
    /\ pc["main"] = "s3_op"
    /\ be.ops # <<>> /\ Head(be.ops) = "invalidate"
    /\ cdn' = IF cfg.dist THEN cdn \cup {InvalidationPath(be.cur)} ELSE cdn
    /\ be' = [be EXCEPT !.ops = Tail(@)]
    /\ hist' = (IF cfg.dist THEN LogCall("invalidate") ELSE hist)
    /\ UNCHANGED <<localvars, chan, pc, remote, faults>>

\* The remote actions of one build are done: back to the caller's loop.
S3OpsDone ==
    /\ pc["main"] = "s3_op"
    /\ be.ops = <<>>
    /\ pc' = [pc EXCEPT !["main"] = be.ret]
    /\ hist' = IF be.ret = "s3_recv"
               THEN [hist EXCEPT !.inflight = @ \ {hist.recvd[Len(hist.recvd)].seq}]
               ELSE hist
    /\ UNCHANGED <<localvars, chan, remote, cdn, be, faults>>

(***************************************************************************)
(* synchronize alone, from every local CacheDir and bucket state.          *)
(***************************************************************************)
\* What the bucket may hold for one build: nothing, a complete upload, an
\* upload without its sentinel, or a sentinel over the files of another
\* content.
RemoteBuildStates ==
    {{}}
    \cup {{[file |-> f.path, body |-> <<"bytes", c>>] : f \in Unpack(c)}
            \cup {[file |-> CHECKSUM_FILENAME, body |-> Blake2b512(c)]} : c \in Contents}
    \cup {{[file |-> f.path, body |-> <<"bytes", 1>>] : f \in Unpack(1)}}
    \cup {{[file |-> f.path, body |-> <<"bytes", 2>>] : f \in Unpack(2)}
            \cup {[file |-> CHECKSUM_FILENAME, body |-> Blake2b512(1)]}}

\* The bucket holding state st[b] for each build b, and `others` as is.
BucketOf(prefix, st, others) ==
    LET mine == UNION {{[key |-> prefix \o b \o <<SLASH, o.file>>, body |-> o.body] :
                           o \in st[b]} : b \in DOMAIN st}
        keys == {o.key : o \in mine} \cup DOMAIN others
    IN  [k \in keys |->
            IF k \in DOMAIN others THEN others[k]
            ELSE (CHOOSE o \in mine : o.key = k).body]

Buckets(prefix, ids) ==
    {BucketOf(prefix, st, others) :
        st \in [ids -> RemoteBuildStates],
        others \in {<<>>, [k \in {prefix \o <<"iam_test">>} |-> <<"bytes", 0>>]}}

PrefixOptions == {<<SLASH>>, <<"p">>}

InitS3Sync ==
    /\ cfg \in [backend : {"s3"}, salt : {NoSalt}, dist : BOOLEAN,
                prefix : {NormalizePrefix(o) : o \in PrefixOptions}]
    /\ artifacts = <<>>
    /\ cache \in CacheDirs({<<"b1">>, <<"b2">>})
    /\ cache[Root] = EmptyDir
    /\ pc = [main |-> "s3_sync_dirs", watcher |-> "off"]
    /\ xt = [t \in Threads |-> NoExtract]
    /\ sc = NoSync
    /\ remote \in Buckets(cfg.prefix, {<<"b1">>, <<"old">>})
    /\ cdn = {}
    /\ be = NoBackend
    /\ faults = 0
    /\ fsq = <<>>
    /\ chan = <<>>
    /\ budget = 0
    /\ nSent = 0
    /\ hist = NoHistory
    /\ http = NoResponse

NextS3Sync ==
    \/ S3SyncDirs
    \/ S3SyncListPage
    \/ S3SyncLocal
    \/ S3SyncLocalDone
    \/ S3SyncRemote
    \/ S3SyncReturn
    \/ S3DeleteBucketDir
    \/ S3UploadWalk
    \/ S3UploadFile
    \/ S3UploadDone
    \/ S3CreateInvalidation
    \/ S3OpsDone

SpecS3Sync == InitS3Sync /\ [][NextS3Sync]_vars

\* The BuildId prefixes directly under the path prefix.
RemoteBuildIds ==
    {BucketBuildId(cfg.prefix, e.key) :
        e \in {x \in DelimitedEntries(remote, cfg.prefix) : x.common}}

LocalBuildIds == (DOMAIN cache) \ {Root}

EverySentinelPresent == \A d \in LocalBuildIds : cache[d].sum # NoSum

SynchronizeReturned == pc["main"] = "s3_recv" /\ hist.synced /\ hist.recvd = <<>>

\* The remote state synchronize is to reach.
RemoteMatchesLocal ==
    /\ RemoteBuildIds = LocalBuildIds
    /\ \A d \in LocalBuildIds : GetObject(remote, ChecksumKey(d)) = Some(cache[d].sum)

\* C4 as stated: after a successful synchronize over a CacheDir whose
\* entries each hold a sentinel, the remote BuildId prefixes are exactly the
\* local BuildIds and every remote sentinel equals the local one.
C4_SynchronizeConverges ==
    (SynchronizeReturned /\ EverySentinelPresent) => RemoteMatchesLocal

\* C4 amended: the same, provided no remote build absent from CacheDir held
\* more objects than one listing response returns (delete_bucket_dir sends
\* one ListObjectsV2 request and deletes the keys of that response only).
C4_SynchronizeConvergesUpToOnePage ==
    (SynchronizeReturned /\ EverySentinelPresent /\ be.cut \subseteq LocalBuildIds)
        => RemoteMatchesLocal

\* synchronize has returned over a non-empty CacheDir after replacing or
\* removing a remote build (an invalidation was sent), no listing cut short.
C4_Witness ==
    /\ SynchronizeReturned /\ EverySentinelPresent /\ be.cut = {}
    /\ LocalBuildIds # {}
    /\ cdn # {}


(***************************************************************************)
(* The producer: the process that writes and removes files in ArtifactDir. *)
(* The debouncer hands the Watcher one file event per change once          *)
(* watcher.watch(..) has been called and until the thread is gone.         *)
(***************************************************************************)
MaxPending == 2

Watching == pc["watcher"] \notin {"off", "w_init", "panicked"} /\ ~Exited

FileEvent(kind, path) == [kind |-> kind, path |-> path]

Notify(q, ev) == IF Watching THEN Append(q, ev) ELSE q

ProducerWrite(n, c) ==
    /\ budget > 0
    /\ ~Exited
    /\ Len(fsq) < MaxPending
    /\ artifacts' = [x \in (DOMAIN artifacts) \cup {n} |->
                        IF x = n THEN c ELSE artifacts[x]]
    /\ fsq' = Notify(fsq, FileEvent(IF n \in DOMAIN artifacts THEN "Modify" ELSE "Create", n))
    /\ budget' = budget - 1
    /\ UNCHANGED <<cache, cfg, pc, xt, sc, remote, cdn, be, faults, chan, nSent, hist, http>>

ProducerRemove(n) ==
    /\ budget > 0
    /\ ~Exited
    /\ Len(fsq) < MaxPending
    /\ n \in DOMAIN artifacts
    /\ artifacts' = [x \in (DOMAIN artifacts) \ {n} |-> artifacts[x]]
    /\ fsq' = Notify(fsq, FileEvent("Remove", n))
    /\ budget' = budget - 1
    /\ UNCHANGED <<cache, cfg, pc, xt, sc, remote, cdn, be, faults, chan, nSent, hist, http>>

(***************************************************************************)
(* watch_dir: the channel and the Watcher thread.                          *)
(***************************************************************************)
ChannelCapacity == 32

BuildEvent(kind, build, seq) == [kind |-> kind, build |-> build, seq |-> seq]

\* Sender::blocking_send on a channel with room: the value goes to the back.
ChanSend(q, msg) == Append(q, msg)

\* A receive that takes the newest value.
ChanRecvLast(q) == [msg |-> q[Len(q)], rest |-> SubSeq(q, 1, Len(q) - 1)]

\* Receiver::recv on a non-empty channel: the value at the front.
ChanRecv(q) == [msg |-> Head(q), rest |-> Tail(q)]

\* main: watch_dir creates the channel and spawns the thread, and returns
\* the receiver at once.
WatchDir ==
    /\ pc["main"] = "synced"
    /\ pc' = [pc EXCEPT !["main"] = "backend_new", !["watcher"] = "w_init"]
    /\ chan' = <<>>
    /\ UNCHANGED <<artifacts, cache, cfg, xt, sc, remote, cdn, be, faults,
                   fsq, budget, nSent, hist, http>>

\* new_debouncer_opt(..) and watcher.watch(artifact_dir, NonRecursive).
WatcherStart ==
    /\ pc["watcher"] = "w_init"
    /\ ~Exited
    /\ pc' = [pc EXCEPT !["watcher"] = "w_recv"]
    /\ UNCHANGED <<artifacts, cache, cfg, xt, sc, remote, cdn, be, faults,
                   fsq, chan, budget, nSent, hist, http>>

\* A Watcher that sends Create and Update before it extracts.
WatcherRecvSendFirst ==
    /\ pc["watcher"] = "w_recv"
    /\ ~Exited
    /\ fsq # <<>>
    /\ fsq' = Tail(fsq)
    /\ LET event == Head(fsq)
           id == is_artifact_tarball(event.path, cfg.salt)
       IN  IF id = None
           THEN UNCHANGED <<pc, xt>>
           ELSE IF event.kind = "Create"
           THEN /\ xt' = [xt EXCEPT !["watcher"] =
                            [dir |-> id[1], name |-> event.path, kind |-> "Create"]]
                /\ pc' = [pc EXCEPT !["watcher"] = "w_send"]
           ELSE IF event.kind = "Modify"
           THEN /\ xt' = [xt EXCEPT !["watcher"] =
                            [dir |-> id[1], name |-> event.path, kind |-> "Update"]]
                /\ pc' = [pc EXCEPT !["watcher"] = "w_send"]
           ELSE IF event.kind = "Remove"
           THEN /\ xt' = [xt EXCEPT !["watcher"] =
                            [dir |-> id[1], name |-> event.path, kind |-> "Delete"]]
                /\ pc' = [pc EXCEPT !["watcher"] = "w_rmdir"]
           ELSE UNCHANGED <<pc, xt>>
    /\ UNCHANGED <<artifacts, cache, cfg, sc, remote, cdn, be, faults,
                   chan, budget, nSent, hist, http>>

\* watcher_rx.recv() and the match on event.kind, up to the first
\* filesystem call made for the event's path.
WatcherRecv ==
    /\ pc["watcher"] = "w_recv"
    /\ ~Exited
    /\ fsq # <<>>
    /\ fsq' = Tail(fsq)
    /\ LET event == Head(fsq)
           id == is_artifact_tarball(event.path, cfg.salt)
       IN  IF id = None
           THEN UNCHANGED <<pc, xt>>
           ELSE IF event.kind = "Create"
           THEN /\ xt' = [xt EXCEPT !["watcher"] =
                            [dir |-> id[1], name |-> event.path, kind |-> "Create"]]
                /\ pc' = [pc EXCEPT !["watcher"] = "x_rm"]
           ELSE IF event.kind = "Modify"
           THEN /\ xt' = [xt EXCEPT !["watcher"] =
                            [dir |-> id[1], name |-> event.path, kind |-> "Update"]]
                /\ pc' = [pc EXCEPT !["watcher"] = "x_rm"]
           ELSE IF event.kind = "Remove"
           THEN /\ xt' = [xt EXCEPT !["watcher"] =
                            [dir |-> id[1], name |-> event.path, kind |-> "Delete"]]
                /\ pc' = [pc EXCEPT !["watcher"] = "w_rmdir"]
           ELSE UNCHANGED <<pc, xt>>
    /\ UNCHANGED <<artifacts, cache, cfg, sc, remote, cdn, be, faults,
                   chan, budget, nSent, hist, http>>

\* A Watcher for which a cache directory that is already absent is an error.
WatcherRemoveDirStrict ==
    /\ pc["watcher"] = "w_rmdir"
    /\ ~Exited
    /\ cache' = RemoveDirAll(cache, xt["watcher"].dir)
    /\ pc' = [pc EXCEPT !["watcher"] =
                IF xt["watcher"].dir \in DOMAIN cache THEN "w_send" ELSE "panicked"]
    /\ UNCHANGED <<artifacts, cfg, xt, sc, remote, cdn, be, faults,
                   fsq, chan, budget, nSent, hist, http>>

\* EventKind::Remove: maybe_remove_dir(<CacheDir>/<build_id>).
WatcherRemoveDir ==
    /\ pc["watcher"] = "w_rmdir"
    /\ ~Exited
    /\ cache' = RemoveDirAll(cache, xt["watcher"].dir)
    /\ pc' = [pc EXCEPT !["watcher"] = "w_send"]
    /\ UNCHANGED <<artifacts, cfg, xt, sc, remote, cdn, be, faults,
                   fsq, chan, budget, nSent, hist, http>>

\* A send on a channel without a bound.
WatcherSendUnbounded ==
    /\ pc["watcher"] = "w_send"
    /\ ~Exited
    /\ chan' = ChanSend(chan, BuildEvent(xt["watcher"].kind, xt["watcher"].dir, nSent + 1))
    /\ nSent' = nSent + 1
    /\ xt' = [xt EXCEPT !["watcher"] = NoExtract]
    /\ pc' = [pc EXCEPT !["watcher"] = "w_recv"]
    /\ UNCHANGED <<artifacts, cache, cfg, sc, remote, cdn, be, faults,
                   fsq, budget, hist, http>>

\* tx.blocking_send(BuildEvent::..(build_id)): returns once the channel has
\* room for the event; the receiver lives as long as main does.
WatcherSend ==
    /\ pc["watcher"] = "w_send"
    /\ ~Exited
    /\ Len(chan) < ChannelCapacity
    /\ chan' = ChanSend(chan, BuildEvent(xt["watcher"].kind, xt["watcher"].dir, nSent + 1))
    /\ nSent' = nSent + 1
    /\ xt' = [xt EXCEPT !["watcher"] = NoExtract]
    /\ pc' = [pc EXCEPT !["watcher"] = "w_recv"]
    /\ UNCHANGED <<artifacts, cache, cfg, sc, remote, cdn, be, faults,
                   fsq, budget, hist, http>>

(***************************************************************************)
(* main after watch_dir: the backend is built and run.                     *)
(***************************************************************************)
BackendNew ==
    /\ pc["main"] = "backend_new"
    /\ pc' = [pc EXCEPT !["main"] =
                IF cfg.backend = "s3" THEN "s3_preflight" ELSE "sh_bind"]
    /\ UNCHANGED <<artifacts, cache, cfg, xt, sc, remote, cdn, be, faults,
                   fsq, chan, budget, nSent, hist, http>>

\* A run that uploads an updated build before it deletes the old one.
EventOpsUploadFirst(kind) ==
    IF kind = "Create" THEN <<"upload">>
    ELSE IF kind = "Update"
    THEN <<"upload", "delete">> \o (IF cfg.dist THEN <<"invalidate">> ELSE <<>>)
    ELSE <<"delete">> \o (IF cfg.dist THEN <<"invalidate">> ELSE <<>>)

\* What S3Backend::run calls for one event, call by call.
EventOps(kind) ==
    IF kind = "Create" THEN <<"upload">>
    ELSE IF kind = "Update"
    THEN <<"delete", "upload">> \o (IF cfg.dist THEN <<"invalidate">> ELSE <<>>)
    ELSE <<"delete">> \o (IF cfg.dist THEN <<"invalidate">> ELSE <<>>)

\* An event loop that takes the next event while the remote calls of the
\* current one are still running.
S3RecvWhileBusy ==
    /\ pc["main"] \in {"s3_recv", "s3_op"}
    /\ pc["main"] = "s3_op" => be.ret = "s3_recv"
    /\ IF chan # <<>>
       THEN LET r == ChanRecv(chan)
            IN  /\ chan' = r.rest
                /\ be' = [be EXCEPT !.cur = r.msg.build,
                                    !.ops = EventOps(r.msg.kind),
                                    !.walk = None,
                                    !.ret = "s3_recv"]
                /\ hist' = [hist EXCEPT !.recvd = Append(@, r.msg),
                                        !.inflight = @ \cup {r.msg.seq},
                                        !.calls = <<>>]
                /\ pc' = [pc EXCEPT !["main"] = "s3_op"]
       ELSE /\ pc["main"] = "s3_recv"
            /\ pc["watcher"] = "panicked"
            /\ pc' = [pc EXCEPT !["main"] = "exit_ok"]
            /\ UNCHANGED <<chan, be, hist>>
    /\ UNCHANGED <<localvars, remote, cdn, faults>>

\* while let Some(event) = rx.recv().await: the front event is taken and its
\* remote calls begin; None, once the channel is empty and the Watcher
\* thread (the only sender) is gone, ends run with Ok.
S3Recv ==
    /\ pc["main"] = "s3_recv"
    /\ IF chan # <<>>
       THEN LET r == ChanRecv(chan)
            IN  /\ chan' = r.rest
                /\ be' = [be EXCEPT !.cur = r.msg.build,
                                    !.ops = EventOps(r.msg.kind),
                                    !.walk = None,
                                    !.ret = "s3_recv"]
                /\ hist' = [hist EXCEPT !.recvd = Append(@, r.msg),
                                        !.inflight = @ \cup {r.msg.seq},
                                        !.calls = <<>>]
                /\ pc' = [pc EXCEPT !["main"] = "s3_op"]
       ELSE /\ pc["watcher"] = "panicked"
            /\ pc' = [pc EXCEPT !["main"] = "exit_ok"]
            /\ UNCHANGED <<chan, be, hist>>
    /\ UNCHANGED <<localvars, remote, cdn, faults>>


(***************************************************************************)
(* SelfhostedBackend::run.                                                 *)
(***************************************************************************)
Request(dir, file) == [dir |-> dir, file |-> file]

HealthRequest == Request(Root, <<"health">>)

Response(status, disposition, body) ==
    [status |-> status, disposition |-> disposition, body |-> body]

\* A path segment as the client may write it: "%2E" is the percent-encoding
\* of ".".
ENCODED_CHECKSUM_FILENAME == "%2E__checksum"

\* The resolver decodes the percent-encoding of the request path before it
\* looks the file up.
PercentDecode(segment) ==
    IF segment = ENCODED_CHECKSUM_FILENAME THEN CHECKSUM_FILENAME ELSE segment

\* static_.resolver.resolve_request(&req), then ResponseBuilder::build: the
\* file below CacheDir with 200, a redirect to "<path>/" for a directory
\* asked for without the trailing slash, 404 for a path that names nothing.
Resolve(fs, req) ==
    LET file == [i \in DOMAIN req.file |-> PercentDecode(req.file[i])]
    IN  IF file = <<>>
        THEN IF req.dir \in DOMAIN fs /\ req.dir # Root
             THEN Response(301, FALSE, None)
             ELSE Response(404, FALSE, None)
        ELSE IF Len(file) = 1 /\ FileExists(fs, [dir |-> req.dir, file |-> file[1]])
        THEN Response(200, FALSE, Some(FileBody(fs, [dir |-> req.dir, file |-> file[1]])))
        ELSE Response(404, FALSE, None)

\* A handler that marks every resolved response as an attachment.
HandleRequestAttachAll(fs, req) ==
    IF req = HealthRequest
    THEN Response(200, FALSE, None)
    ELSE IF EndsWith(req.file, <<CHECKSUM_FILENAME>>)
    THEN Response(404, FALSE, None)
    ELSE [Resolve(fs, req) EXCEPT !.disposition = TRUE]

\* handle_request: /health, then the sentinel filter on the suffix of the
\* path as received, then the resolver's response, marked as an attachment
\* when its status is 200.
handle_request(fs, req) ==
    IF req = HealthRequest
    THEN Response(200, FALSE, None)
    ELSE IF EndsWith(req.file, <<CHECKSUM_FILENAME>>)
    THEN Response(404, FALSE, None)
    ELSE LET response == Resolve(fs, req)
         IN  IF response.status = 200
             THEN [response EXCEPT !.disposition = TRUE]
             ELSE response

\* self.address.parse()? and TcpListener::bind(addr).await?
SHBind ==
    /\ pc["main"] = "sh_bind"
    /\ \E bound \in BOOLEAN :
          pc' = [pc EXCEPT !["main"] = IF bound THEN "sh_accept" ELSE "exit_err"]
    /\ UNCHANGED <<artifacts, cache, cfg, xt, sc, remote, cdn, be, faults,
                   fsq, chan, budget, nSent, hist, http>>

\* One turn of the accept loop with the request it serves; hist.snap
\* (history) keeps the request.  The receiver _rx is held by run and never
\* polled.
SHServe(req) ==
    /\ pc["main"] = "sh_accept"
    /\ http' = handle_request(cache, req)
    /\ hist' = [hist EXCEPT !.snap = [req |-> req]]
    /\ UNCHANGED <<artifacts, cache, cfg, pc, xt, sc, remote, cdn, be, faults,
                   fsq, chan, budget, nSent>>

(***************************************************************************)
(* The whole program with the S3 backend, from the start of main.          *)
(***************************************************************************)
MaxChanges == 2

ProducerNames == {NameB1}

\* CacheDir at the start of main: empty, or holding build b1 as an earlier
\* run left it, extracted from content 1 with or without its sentinel.
StartCaches ==
    {c \in CacheDirs({<<"b1">>}) :
        /\ c[Root] = EmptyDir
        /\ \A d \in (DOMAIN c) \ {Root} :
              c[d].tree = Unpack(1) /\ c[d].sum \in {NoSum, Blake2b512(1)}}

\* The bucket at the start of main: empty, or holding build b1 as an earlier
\* run uploaded it.
StartBuckets ==
    {BucketOf(<<>>, st, <<>>) :
        st \in [{<<"b1">>} -> {{}, {[file |-> f.path, body |-> <<"bytes", 1>>] : f \in Unpack(1)}
                                    \cup {[file |-> CHECKSUM_FILENAME, body |-> Blake2b512(1)]}}]}

Init ==
    /\ cfg \in [backend : {"s3"}, salt : {NoSalt}, dist : BOOLEAN, prefix : {<<>>}]
    /\ artifacts \in ArtifactDirs({NameB1})
    /\ cache \in StartCaches
    /\ pc = [main |-> "sync_scan", watcher |-> "off"]
    /\ xt = [t \in Threads |-> NoExtract]
    /\ sc = NoSync
    /\ remote \in StartBuckets
    /\ cdn = {}
    /\ be = NoBackend
    /\ faults \in {0, 1}
    /\ fsq = <<>>
    /\ chan = <<>>
    /\ budget = MaxChanges
    /\ nSent = 0
    /\ hist = NoHistory
    /\ http = NoResponse

CacheManager ==
    \/ SyncScan
    \/ SyncTarball
    \/ SyncTarballsDone
    \/ SyncStale
    \/ SyncReturn
    \/ \E t \in Threads : XRemove(t)
    \/ \E t \in Threads : XCreate(t)
    \/ \E t \in Threads : XUnpack(t)
    \/ \E t \in Threads : XChecksum(t)

Producer ==
    \/ \E n \in ProducerNames, c \in Contents : ProducerWrite(n, c)
    \/ \E n \in ProducerNames : ProducerRemove(n)

Watcher ==
    \/ WatchDir
    \/ WatcherStart
    \/ WatcherRecv
    \/ WatcherRemoveDir
    \/ WatcherSend

\* Every step of run in which the remote call it makes succeeds.
S3Steps ==
    \/ S3TestPermissions
    \/ S3SyncDirs
    \/ S3SyncListPage
    \/ S3SyncLocal
    \/ S3SyncLocalDone
    \/ S3SyncRemote
    \/ S3SyncReturn
    \/ S3DeleteBucketDir
    \/ S3UploadWalk
    \/ S3UploadFile
    \/ S3UploadDone
    \/ S3CreateInvalidation
    \/ S3OpsDone
    \/ S3Recv

S3Run == S3CallFails \/ S3Steps

Next == CacheManager \/ Producer \/ Watcher \/ BackendNew \/ S3Run

Spec == Init /\ [][Next]_vars


\* The sequence numbers of a run of events.
EventSeqs(q) == [i \in 1..Len(q) |-> q[i].seq]

\* C3: in every reachable state, a rewrite of the tarball during a running
\* extract_to included, a cache entry whose sentinel is the checksum of a
\* tarball content T holds exactly the extraction of T.
C3_SentinelNamesTree ==
    \A d \in (DOMAIN cache) \ {Root} :
        \A c \in Contents :
            cache[d].sum = Blake2b512(c) => cache[d].tree = Unpack(c)

\* C7: events of one BuildId are received by the backend in the order the
\* Watcher sent them, and none is received while an earlier one of the same
\* BuildId is still in the channel.
C7_SameBuildInOrder ==
    /\ \A i, j \in DOMAIN hist.recvd :
          (i < j /\ hist.recvd[i].build = hist.recvd[j].build)
              => hist.recvd[i].seq < hist.recvd[j].seq
    /\ \A i \in DOMAIN hist.recvd : \A k \in DOMAIN chan :
          hist.recvd[i].build = chan[k].build => hist.recvd[i].seq < chan[k].seq

C7_Witness ==
    /\ Len(hist.recvd) >= 2
    /\ hist.recvd[1].build = hist.recvd[2].build
    /\ hist.recvd[1].kind # hist.recvd[2].kind

\* C8: the S3 backend has at most one event in flight: between receiving an
\* event and the return of its last remote call it receives no other, and
\* it is back at recv only with nothing in flight.
C8_OneEventInFlight ==
    /\ Cardinality(hist.inflight) <= 1
    /\ pc["main"] = "s3_recv" => hist.inflight = {}
    /\ (hist.recvd # <<>> /\ be.ops # <<>>)
           => hist.inflight = {hist.recvd[Len(hist.recvd)].seq}

C8_Witness ==
    /\ hist.inflight # {}
    /\ be.ops # <<>> /\ Head(be.ops) = "upload"
    /\ chan # <<>>

\* C9: the S3 backend receives its first event only after the permission
\* preflight and then synchronize have returned; until then every event the
\* Watcher has sent is still in the channel.
C9_ReconcileBeforeFirstEvent ==
    /\ hist.recvd # <<>> => (hist.preflight /\ hist.synced)
    /\ hist.synced => hist.preflight
    /\ ~hist.synced => EventSeqs(chan) = [i \in 1..nSent |-> i]

C9_Witness ==
    /\ hist.preflight /\ ~hist.synced
    /\ pc["main"] = "s3_op"
    /\ chan # <<>>


(***************************************************************************)
(* A burst of rewrites of one tarball after startup, S3 backend: the       *)
(* program is in its event loop, the cache and the bucket hold build b1.   *)
(***************************************************************************)
MaxBurst == 34

Complete(c) == [sum |-> Blake2b512(c), tree |-> Unpack(c)]

InitChan ==
    /\ cfg = [backend |-> "s3", salt |-> NoSalt, dist |-> TRUE, prefix |-> <<>>]
    /\ artifacts = [n \in {NameB1} |-> 1]
    /\ cache = [d \in {Root, <<"b1">>} |-> IF d = Root THEN EmptyDir ELSE Complete(1)]
    /\ pc = [main |-> "s3_recv", watcher |-> "w_recv"]
    /\ xt = [t \in Threads |-> NoExtract]
    /\ sc = NoSync
    /\ remote = [k \in {UploadKey(<<"b1">>, e) : e \in DirFiles(cache, <<"b1">>)} |->
                    IF k = ChecksumKey(<<"b1">>) THEN Blake2b512(1) ELSE <<"bytes", 1>>]
    /\ cdn = {}
    /\ be = NoBackend
    /\ faults = 0
    /\ fsq = <<>>
    /\ chan = <<>>
    /\ budget = MaxBurst
    /\ nSent = 0
    /\ hist = [NoHistory EXCEPT !.preflight = TRUE, !.synced = TRUE]
    /\ http = NoResponse

WatcherLoop ==
    \/ WatcherRecv
    \/ XRemove("watcher")
    \/ XCreate("watcher")
    \/ XUnpack("watcher")
    \/ XChecksum("watcher")
    \/ WatcherSend

S3EventLoop ==
    \/ S3Recv
    \/ S3DeleteBucketDir
    \/ S3UploadWalk
    \/ S3UploadFile
    \/ S3UploadDone
    \/ S3CreateInvalidation
    \/ S3OpsDone

NextChan == ProducerWrite(NameB1, 1) \/ WatcherLoop \/ S3EventLoop

SpecChan == InitChan /\ [][NextChan]_vars

\* C10: the channel never holds more than 32 events, and every event the
\* Watcher has sent is, once and in order, either received or still in the
\* channel: a full channel makes the send wait, it drops nothing.
C10_BoundedNothingDropped ==
    /\ Len(chan) <= ChannelCapacity
    /\ EventSeqs(hist.recvd \o chan) = [i \in 1..nSent |-> i]
    /\ pc["watcher"] = "w_send" => xt["watcher"].kind # "none"

C10_Witness ==
    /\ Len(chan) = ChannelCapacity
    /\ nSent > ChannelCapacity
    /\ pc["watcher"] = "w_send"


(***************************************************************************)
(* The same burst with the selfhosted backend, from the return of          *)
(* watch_dir.  The Watcher thread and main are scheduled: each of their    *)
(* steps, once continuously enabled, is taken.  Nothing obliges the        *)
(* producer to write or a client to connect.                               *)
(***************************************************************************)
Requests ==
    {HealthRequest,
     Request(<<"b1">>, <<"f1">>),
     Request(<<"b1">>, <<CHECKSUM_FILENAME>>),
     Request(<<"b1">>, <<"f9">>),
     Request(<<"b1">>, <<>>),
     Request(<<"b1">>, <<ENCODED_CHECKSUM_FILENAME>>)}

InitSelfhosted ==
    /\ cfg = [backend |-> "selfhosted", salt |-> NoSalt, dist |-> FALSE, prefix |-> <<>>]
    /\ artifacts = [n \in {NameB1} |-> 1]
    /\ cache = [d \in {Root, <<"b1">>} |-> IF d = Root THEN EmptyDir ELSE Complete(1)]
    /\ pc = [main |-> "backend_new", watcher |-> "w_init"]
    /\ xt = [t \in Threads |-> NoExtract]
    /\ sc = NoSync
    /\ remote = <<>>
    /\ cdn = {}
    /\ be = NoBackend
    /\ faults = 0
    /\ fsq = <<>>
    /\ chan = <<>>
    /\ budget = MaxBurst
    /\ nSent = 0
    /\ hist = NoHistory
    /\ http = NoResponse

SelfhostedRun ==
    \/ BackendNew
    \/ SHBind
    \/ \E req \in Requests : SHServe(req)

NextSelfhosted ==
    ProducerWrite(NameB1, 1) \/ WatcherStart \/ WatcherLoop \/ SelfhostedRun

Scheduled ==
    /\ WF_vars(WatcherStart)
    /\ WF_vars(WatcherLoop)
    /\ WF_vars(BackendNew)
    /\ WF_vars(SHBind)

SpecSelfhosted == InitSelfhosted /\ [][NextSelfhosted]_vars /\ Scheduled

\* C5: while the process runs, every event the Watcher has sent is again
\* and again fully consumed: the backend's count of received events catches
\* up with the Watcher's count of sent ones.
C5_EveryEventConsumed == []<>(Exited \/ Len(hist.recvd) = nSent)

\* C6: with the selfhosted backend a send of the Watcher always completes:
\* the Watcher goes back to waiting for file events.
C6_SendAlwaysCompletes ==
    (pc["watcher"] = "w_send" /\ ~Exited) ~> (pc["watcher"] = "w_recv" \/ Exited)


(***************************************************************************)
(* The selfhosted backend under a few changes of any kind, removals        *)
(* included: a tarball removed before the Watcher opens it makes           *)
(* extract_to fail and the Watcher thread panic, which drops the sender.   *)
(***************************************************************************)
InitSelfhostedFew ==
    /\ cfg = [backend |-> "selfhosted", salt |-> NoSalt, dist |-> FALSE, prefix |-> <<>>]
    /\ artifacts \in ArtifactDirs({NameB1})
    /\ cache = [d \in {Root} \cup {<<"b1">> : n \in DOMAIN artifacts} |->
                    IF d = Root THEN EmptyDir ELSE Complete(artifacts[NameB1])]
    /\ pc = [main |-> "backend_new", watcher |-> "w_init"]
    /\ xt = [t \in Threads |-> NoExtract]
    /\ sc = NoSync
    /\ remote = <<>>
    /\ cdn = {}
    /\ be = NoBackend
    /\ faults = 0
    /\ fsq = <<>>
    /\ chan = <<>>
    /\ budget = MaxChanges
    /\ nSent = 0
    /\ hist = NoHistory
    /\ http = NoResponse

NextSelfhostedFew ==
    \/ Producer
    \/ WatcherStart
    \/ WatcherLoop
    \/ WatcherRemoveDir
    \/ SelfhostedRun

ScheduledFew ==
    /\ WF_vars(WatcherStart)
    /\ WF_vars(WatcherLoop)
    /\ WF_vars(WatcherRemoveDir)
    /\ WF_vars(BackendNew)
    /\ WF_vars(SHBind)

SpecSelfhostedFew == InitSelfhostedFew /\ [][NextSelfhostedFew]_vars /\ ScheduledFew

\* C11: once the Watcher thread is gone and its sender dropped, the
\* backend's run returns and the process exits.
C11_ClosedChannelEndsRun == (pc["watcher"] = "panicked") ~> Exited


\* C12: a failure that ends the Watcher thread is fatal to the process: the
\* process never exits with code 0 after it.
C12_WatcherFailureIsFatal ==
    pc["watcher"] = "panicked" => pc["main"] # "exit_ok"


\* The filesystem side of the event the Watcher is about to send.
SendReady ==
    LET x == xt["watcher"]
    IN  IF x.kind \in {"Create", "Update"}
        THEN /\ x.dir \in DOMAIN cache
             /\ cache[x.dir].sum # NoSum
             /\ cache[x.dir].tree # {}
        ELSE /\ x.kind = "Delete"
             /\ x.dir \notin DOMAIN cache

\* C13: whenever the Watcher sends an event, the cache entry of a Create or
\* Update exists with its sentinel written and the directory of a Delete is
\* gone; a failed extraction sends nothing.
C13_FilesystemBeforeEvent ==
    [][/\ nSent' # nSent => SendReady
       /\ pc'["watcher"] = "panicked" => nSent' = nSent]_vars

C13_Witness ==
    /\ pc["watcher"] = "w_send"
    /\ xt["watcher"].kind = "Delete"
    /\ nSent >= 1
    /\ chan # <<>>


\* The Cache Manager is between the first and the last filesystem call of a
\* removal or re-extraction of <CacheDir>/d.
WriteInProgress(d) ==
    /\ \E t \in Threads :
          /\ pc[t] \in {"x_mkdir", "x_unpack", "x_sum"}
          /\ xt[t].dir = d
    /\ ~Exited

\* upload_cache_dir has begun its walk of <CacheDir>/d and has files left.
BackendReading(d) ==
    /\ pc["main"] = "s3_op"
    /\ be.ops # <<>> /\ Head(be.ops) = "upload"
    /\ be.walk # None /\ be.walk # Some({})
    /\ be.cur = d

\* C14: the S3 backend is never in the middle of reading a cache entry
\* while the Cache Manager is in the middle of rewriting it.
C14_NoReadDuringWrite ==
    \A d \in {<<"b1">>} : ~(BackendReading(d) /\ WriteInProgress(d))


(***************************************************************************)
(* The whole program with the S3 backend and no remote failure.  The       *)
(* threads are scheduled: a step of main or of the Watcher that stays      *)
(* enabled is taken.  The producer may stop at any time.                   *)
(***************************************************************************)
InitReliable == Init /\ faults = 0

NextReliable == CacheManager \/ Producer \/ Watcher \/ BackendNew \/ S3Steps

ScheduledAll ==
    /\ WF_vars(CacheManager)
    /\ WF_vars(Watcher)
    /\ WF_vars(BackendNew)
    /\ WF_vars(S3Steps)

SpecReliable == InitReliable /\ [][NextReliable]_vars /\ ScheduledAll

\* CacheDir holds exactly one complete, current entry per tarball and the
\* bucket holds exactly the same builds.
Converged ==
    /\ LocalBuildIds = {BuildIdOf(n) : n \in Tarballs}
    /\ \A n \in Tarballs :
          /\ BuildIdOf(n) \in DOMAIN cache
          /\ cache[BuildIdOf(n)] = Complete(artifacts[n])
    /\ RemoteBuildIds = LocalBuildIds

\* C15: whatever the producer does and whenever it does it, from some point
\* on CacheDir and the bucket agree with ArtifactDir.
C15_EventuallyConsistent == <>[]Converged


\* The remote actions the backend owes an event of each kind.
ExpectedCalls(kind) ==
    CASE kind = "Create" -> <<"upload">>
      [] kind = "Update" -> IF cfg.dist THEN <<"delete", "upload", "invalidate">>
                                        ELSE <<"delete", "upload">>
      [] kind = "Delete" -> IF cfg.dist THEN <<"delete", "invalidate">>
                                        ELSE <<"delete">>

IsPrefixOf(p, q) == Len(p) <= Len(q) /\ SubSeq(q, 1, Len(p)) = p

\* C16: the remote actions issued for an event are, in order, those of its
\* kind, all of them once it has been handled; without a distribution no
\* invalidation is ever issued.
C16_EventActions ==
    /\ ~cfg.dist => cdn = {}
    /\ hist.recvd # <<>> =>
         LET e == hist.recvd[Len(hist.recvd)]
         IN  IF e.seq \in hist.inflight
             THEN IsPrefixOf(hist.calls, ExpectedCalls(e.kind))
             ELSE hist.calls = ExpectedCalls(e.kind)

C16_Witness ==
    /\ pc["main"] = "s3_recv"
    /\ Len(hist.recvd) = 2
    /\ hist.recvd[1].kind = "Create"
    /\ hist.recvd[2].kind = "Update"
    /\ hist.calls = <<"delete", "upload", "invalidate">>


\* The keys the bucket holds under <prefix><d>/.
RemoteKeys(d) == {k \in DOMAIN remote : IsPrefix(BucketDir(d), k)}

\* The keys of the regular files of the local entry d.
LocalKeys(d) ==
    IF d \in DOMAIN cache THEN {UploadKey(d, e) : e \in DirFiles(cache, d)} ELSE {}

\* C17: at the moment the backend has handled Update(b) to the end, the
\* bucket holds under b/ exactly the keys of the local entry's files; at the
\* moment it has handled Delete(b), it holds none.
C17_RemoteStateAfterEvent ==
    [][\A i \in DOMAIN hist.recvd :
          LET e == hist.recvd[i]
          IN  (e.seq \in hist.inflight /\ e.seq \notin hist'.inflight) =>
                /\ e.kind = "Update" => RemoteKeys(e.build)' = LocalKeys(e.build)'
                /\ e.kind = "Delete" => RemoteKeys(e.build)' = {}]_vars


\* C18: a failed call of the permission preflight ends the process before
\* synchronize has started and before any event has been received.
C18_PreflightFailureAborts ==
    (hist.failed > 0 /\ ~hist.preflight) =>
        /\ pc["main"] = "exit_err"
        /\ be = NoBackend
        /\ ~hist.synced
        /\ hist.recvd = <<>>

C18_Witness ==
    /\ hist.failed > 0 /\ ~hist.preflight
    /\ chan # <<>>
    /\ cfg.prefix \o <<"iam_test">> \in DOMAIN remote


\* C19: a remote call that has failed ends the process with an error: the
\* backend takes no further step as if the call had returned normally.
C19_RemoteFailurePropagates ==
    hist.failed > 0 => pc["main"] = "exit_err"


(***************************************************************************)
(* The program restarted once after a remote failure ended it.  The new    *)
(* process finds ArtifactDir, CacheDir and the bucket as the old one left  *)
(* them; no remote call fails any more and the producer is quiet.          *)
(***************************************************************************)
Restart ==
    /\ pc["main"] = "exit_err"
    /\ hist.failed > 0 /\ hist.preflight
    /\ hist.restarts = 0
    /\ pc' = [main |-> "sync_scan", watcher |-> "off"]
    /\ xt' = [t \in Threads |-> NoExtract]
    /\ sc' = NoSync
    /\ be' = NoBackend
    /\ faults' = 0
    /\ fsq' = <<>>
    /\ chan' = <<>>
    /\ budget' = 0
    /\ nSent' = 0
    /\ hist' = [NoHistory EXCEPT !.restarts = 1]
    /\ UNCHANGED <<artifacts, cache, cfg, remote, cdn, http>>

NextRestart == Next \/ Restart

SpecRestart == Init /\ [][NextRestart]_vars

\* C20: after a restart that follows a remote failure, once sync_cache and
\* synchronize have run, the bucket holds for every local build exactly the
\* keys of its files and holds no build that is absent locally.
C20_RestartReconverges ==
    (hist.restarts = 1 /\ hist.synced /\ pc["main"] = "s3_recv") =>
        /\ \A d \in LocalBuildIds : RemoteKeys(d) = LocalKeys(d)
        /\ RemoteBuildIds \subseteq LocalBuildIds


\* main is inside sync_cache (extract_to called from it included).
InSyncCache ==
    pc["main"] \in {"sync_scan", "sync_tarballs", "sync_stale",
                    "x_rm", "x_mkdir", "x_unpack", "x_sum"}

\* main has reached the creation of the backend or is past it.
BackendStarted ==
    pc["main"] \in {"s3_preflight", "s3_sync_dirs", "s3_sync_list", "s3_sync_local",
                    "s3_sync_remote", "s3_op", "s3_recv", "sh_bind", "sh_accept",
                    "exit_ok"}

\* C21: while main is inside sync_cache the Watcher thread does not exist: it
\* has received no file event, runs no extraction or removal and has sent
\* nothing; the thread exists once main creates the backend, and the backend
\* has done nothing before.
C21_StartupOrder ==
    /\ InSyncCache =>
          /\ pc["watcher"] = "off"
          /\ xt["watcher"] = NoExtract
          /\ fsq = <<>> /\ chan = <<>> /\ nSent = 0
          /\ be = NoBackend /\ ~hist.preflight
    /\ pc["main"] = "synced" => pc["watcher"] = "off" /\ be = NoBackend
    /\ (pc["main"] = "backend_new" \/ BackendStarted) => pc["watcher"] # "off"
    /\ pc["watcher"] = "off" => (be = NoBackend /\ ~hist.preflight)

\* sync_cache is in the middle of an extraction after the producer has
\* changed ArtifactDir, and no Watcher exists.
C21_Witness ==
    /\ pc["main"] = "x_unpack"
    /\ xt["main"].kind = "sync"
    /\ budget < MaxChanges
    /\ pc["watcher"] = "off"


(***************************************************************************)
(* The S3 backend in its event loop over an empty ArtifactDir, an empty    *)
(* CacheDir and an empty bucket, under a few changes of the producer.      *)
(***************************************************************************)
InitEmptyLoop ==
    /\ cfg \in [backend : {"s3"}, salt : {NoSalt}, dist : BOOLEAN, prefix : {<<>>}]
    /\ artifacts = <<>>
    /\ cache = [d \in {Root} |-> EmptyDir]
    /\ pc = [main |-> "s3_recv", watcher |-> "w_recv"]
    /\ xt = [t \in Threads |-> NoExtract]
    /\ sc = NoSync
    /\ remote = <<>>
    /\ cdn = {}
    /\ be = NoBackend
    /\ faults = 0
    /\ fsq = <<>>
    /\ chan = <<>>
    /\ budget = MaxChanges
    /\ nSent = 0
    /\ hist = [NoHistory EXCEPT !.preflight = TRUE, !.synced = TRUE]
    /\ http = NoResponse

NextEmptyLoop == Producer \/ WatcherLoop \/ WatcherRemoveDir \/ S3EventLoop

SpecEmptyLoop == InitEmptyLoop /\ [][NextEmptyLoop]_vars

\* Every BuildEvent sent so far, in the order of sending.
SentEvents == hist.recvd \o chan

\* The Watcher has sent Create(b1) and then Delete(b1) and nothing else, and
\* the backend has finished with them: it waits at recv over an empty
\* channel, or its run has returned.
CreateDeleteDone ==
    /\ Len(SentEvents) = 2
    /\ SentEvents[1].kind = "Create" /\ SentEvents[1].build = <<"b1">>
    /\ SentEvents[2].kind = "Delete" /\ SentEvents[2].build = <<"b1">>
    /\ fsq = <<>> /\ pc["watcher"] = "w_recv"
    /\ \/ pc["main"] = "s3_recv" /\ chan = <<>>
       \/ Exited

\* C22: once Create(b1) and Delete(b1), sent by the Watcher over an empty
\* CacheDir and an empty bucket, are behind the backend, CacheDir and the
\* bucket are empty again.
C22_CreateDeleteCancels ==
    CreateDeleteDone => (cache = [d \in {Root} |-> EmptyDir] /\ remote = <<>>)


(***************************************************************************)
(* sync_cache called a second time right after it has returned Ok, over    *)
(* the same ArtifactDir.                                                   *)
(***************************************************************************)
\* The second call, lines 86-108: read_dir lists the unchanged ArtifactDir
\* as before; hist.snap (history) keeps CacheDir as the first call left it.
SyncCacheAgain ==
    /\ pc["main"] = "synced"
    /\ hist.snap = <<>>
    /\ hist' = [hist EXCEPT !.snap = cache]
    /\ sc' = [tarballs |-> sc.tarballs,
              cache_dirs |-> (DOMAIN cache) \ {Root},
              todo |-> DOMAIN sc.tarballs,
              orphans |-> {},
              outdated |-> {}]
    /\ cache' = [cache EXCEPT ![Root] = EmptyDir]
    /\ pc' = [pc EXCEPT !["main"] = "sync_tarballs"]
    /\ UNCHANGED <<artifacts, cfg, xt, remote, cdn, be, faults, fsq, chan,
                   budget, nSent, http>>

NextSyncTwice == NextSync \/ SyncCacheAgain

SpecSyncTwice == InitSync /\ [][NextSyncTwice]_vars

InSecondSync == hist.snap # <<>>

\* C23: throughout a second sync_cache that follows a successful first one,
\* CacheDir stays as the first left it: nothing is removed and extract_to is
\* not called.
C23_SyncCacheIdempotent ==
    InSecondSync =>
        /\ cache = hist.snap
        /\ pc["main"] \notin {"x_rm", "x_mkdir", "x_unpack", "x_sum"}

\* The same, for the directories in which the tarball names give distinct,
\* non-empty BuildIds.
SyncCacheIdempotentOnDistinctIds ==
    DistinctBuildIds => C23_SyncCacheIdempotent


(***************************************************************************)
(* synchronize called a second time right after it has returned Ok, over   *)
(* the same CacheDir.                                                      *)
(***************************************************************************)
\* The second call begins; hist.snap (history) keeps the bucket and the
\* invalidations as the first call left them, and the builds whose listing
\* the first call's delete_bucket_dir got cut short.
S3SynchronizeAgain ==
    /\ SynchronizeReturned
    /\ hist.snap = <<>>
    /\ hist' = [hist EXCEPT !.snap = [remote |-> remote, cdn |-> cdn, cut |-> be.cut]]
    /\ pc' = [pc EXCEPT !["main"] = "s3_sync_dirs"]
    /\ UNCHANGED <<localvars, chan, remote, cdn, be, faults>>

NextS3SyncTwice == NextS3Sync \/ S3SynchronizeAgain

SpecS3SyncTwice == InitS3Sync /\ [][NextS3SyncTwice]_vars

InSecondSynchronize == hist.snap # <<>>

\* No put, delete or invalidation since the first synchronize returned: the
\* backend has not entered the remote actions of any build, and the bucket
\* and the invalidations sent are as they were.
NothingIssuedSinceFirst ==
    /\ pc["main"] # "s3_op"
    /\ remote = hist.snap.remote
    /\ cdn = hist.snap.cdn

\* C24 as stated: throughout a second synchronize that follows a successful
\* first one over the same CacheDir (each entry holding its sentinel), no
\* put, delete or invalidation is issued and the bucket stays as it was.
C24_SynchronizeIdempotent ==
    (InSecondSynchronize /\ EverySentinelPresent) => NothingIssuedSinceFirst

\* C24 amended: the same, provided the first synchronize found no remote
\* build absent from CacheDir with more objects than one listing response
\* returns.
C24_SynchronizeIdempotentUpToOnePage ==
    (InSecondSynchronize /\ EverySentinelPresent
        /\ hist.snap.cut \subseteq LocalBuildIds)
        => NothingIssuedSinceFirst

\* The second synchronize has returned over a non-empty CacheDir, after a
\* first one that replaced or removed a remote build.
C24_Witness ==
    /\ InSecondSynchronize /\ EverySentinelPresent
    /\ hist.snap.cut \subseteq LocalBuildIds
    /\ pc["main"] = "s3_recv"
    /\ LocalBuildIds # {}
    /\ hist.snap.cdn # {}
    /\ hist.snap.remote # <<>>


Incomplete(d, n) ==
    \/ d \notin DOMAIN cache
    \/ cache[d].sum = NoSum
    \/ n \in DOMAIN artifacts /\ cache[d].sum # Blake2b512(artifacts[n])

\* extract_to of thread t has made its first filesystem call and not its
\* last.
Extracting(t) == pc[t] \in {"x_mkdir", "x_unpack", "x_sum"}

\* C26: from the first filesystem call of an extract_to until its last, the
\* write of the sentinel, the entry is incomplete, and it is left incomplete
\* when extract_to fails or the process ends in between.
C26_SentinelWrittenLast ==
    [][\A t \in Threads :
          /\ Extracting(t) => Incomplete(xt[t].dir, xt[t].name)
          /\ (Extracting(t) /\ pc'[t] = ExtractFailed(t)) =>
                Incomplete(xt[t].dir, xt[t].name)']_vars

\* The process has ended while the Watcher's extract_to had unpacked the
\* tarball and not yet written the sentinel.
C26_Witness ==
    /\ Exited
    /\ pc["watcher"] = "x_sum"
    /\ xt["watcher"].dir \in DOMAIN cache
    /\ cache[xt["watcher"].dir].tree # {}
    /\ cache[xt["watcher"].dir].sum = NoSum


(***************************************************************************)
(* S3Backend::new over every path-prefix option of a few characters,       *)
(* followed by the first use of the prefix in an object key.               *)
(***************************************************************************)
MaxPrefixLen == 5

\* The values of the option path-prefix ("" when the option is absent).
PrefixInputs == UNION {[1..n -> {SLASH, "a"}] : n \in 0..MaxPrefixLen}

InitNew ==
    /\ cfg \in [backend : {"s3"}, salt : {NoSalt}, dist : BOOLEAN, prefix : PrefixInputs]
    /\ artifacts = <<>>
    /\ cache = [d \in {Root} |-> EmptyDir]
    /\ pc = [main |-> "backend_new", watcher |-> "w_recv"]
    /\ xt = [t \in Threads |-> NoExtract]
    /\ sc = NoSync
    /\ remote = <<>>
    /\ cdn = {}
    /\ be = NoBackend
    /\ faults = 0
    /\ fsq = <<>>
    /\ chan = <<>>
    /\ budget = 0
    /\ nSent = 0
    /\ hist = NoHistory
    /\ http = NoResponse

\* S3Backend::new: path_prefix is the normalized option; hist.snap (history)
\* keeps the option as given.
S3New ==
    /\ pc["main"] = "backend_new"
    /\ cfg.backend = "s3"
    /\ hist.snap = <<>>
    /\ cfg' = [cfg EXCEPT !.prefix = NormalizePrefix(@)]
    /\ hist' = [hist EXCEPT !.snap = [option |-> cfg.prefix]]
    /\ pc' = [pc EXCEPT !["main"] = "s3_preflight"]
    /\ UNCHANGED <<artifacts, cache, xt, sc, remote, cdn, be, faults, fsq, chan,
                   budget, nSent, http>>

NextNew == S3New \/ S3TestPermissions

SpecNew == InitNew /\ [][NextNew]_vars

\* C27: the path prefix S3Backend::new stores has no leading "/", is empty
\* or ends with "/", and is a fixed point of the normalization; "" and "/"
\* give "", and "/a", "a/" and "a" give "a/".
C27_PrefixNormalized ==
    hist.snap # <<>> =>
        LET x == hist.snap.option
            r == cfg.prefix
        IN  /\ r = <<>> \/ Head(r) # SLASH
            /\ r = <<>> \/ r[Len(r)] = SLASH
            /\ NormalizePrefix(r) = r
            /\ x = <<>> => r = <<>>
            /\ x = <<SLASH>> => r = <<>>
            /\ x = <<SLASH, "a">> => r = <<"a", SLASH>>
            /\ x = <<"a", SLASH>> => r = <<"a", SLASH>>
            /\ x = <<"a">> => r = <<"a", SLASH>>

\* The option had several leading slashes and no trailing one.
C27_Witness ==
    /\ hist.snap # <<>>
    /\ hist.snap.option = <<SLASH, SLASH, "a", SLASH, "a">>
    /\ cfg.prefix = <<"a", SLASH, "a", SLASH>>


\* The request the selfhosted backend served last, if any.
Served == hist.snap # <<>> /\ pc["main"] = "sh_accept"

\* C28: a request whose path ends in .__checksum is answered 404 with an
\* empty body, and no response carries the bytes of a sentinel.
C28_SentinelNeverServed ==
    Served =>
        /\ EndsWith(hist.snap.req.file, <<CHECKSUM_FILENAME>>)
              => http = Response(404, FALSE, None)
        /\ http.body # None => http.body[1][1] # "blake2b512"


\* C29: /health is answered 200 with an empty body; a request for any other
\* path not ending in .__checksum gets the resolver's status and body, and
\* is marked as an attachment exactly when that status is 200.
C29_RequestRouting ==
    [][(pc["main"] = "sh_accept" /\ <<http, hist.snap>>' # <<http, hist.snap>>) =>
          LET req == hist'.snap.req
              resolved == Resolve(cache, req)
          IN  /\ req = HealthRequest => http' = Response(200, FALSE, None)
              /\ (req # HealthRequest /\ ~EndsWith(req.file, <<CHECKSUM_FILENAME>>)) =>
                    /\ http'.status = resolved.status
                    /\ http'.body = resolved.body
                    /\ http'.disposition = (resolved.status = 200)]_vars

\* The backend has passed a redirect of the resolver through, after the
\* Watcher has written to CacheDir.
C29_Witness ==
    /\ Served
    /\ hist.snap.req = Request(<<"b1">>, <<>>)
    /\ http = Response(301, FALSE, None)
    /\ nSent > 0


(***************************************************************************)
(* The whole program with the selfhosted backend, from the start of main,  *)
(* over an ArtifactDir that may hold a file which is not a tarball; the    *)
(* producer writes and removes that file as well as the tarball.           *)
(***************************************************************************)
InitIgnored ==
    /\ cfg = [backend |-> "selfhosted", salt |-> NoSalt, dist |-> FALSE, prefix |-> <<>>]
    /\ artifacts \in ArtifactDirs({NameB1, NameTxt})
    /\ cache \in StartCaches
    /\ pc = [main |-> "sync_scan", watcher |-> "off"]
    /\ xt = [t \in Threads |-> NoExtract]
    /\ sc = NoSync
    /\ remote = <<>>
    /\ cdn = {}
    /\ be = NoBackend
    /\ faults = 0
    /\ fsq = <<>>
    /\ chan = <<>>
    /\ budget = MaxChanges
    /\ nSent = 0
    /\ hist = NoHistory
    /\ http = NoResponse

ProducerOther ==
    \/ \E c \in Contents : ProducerWrite(NameTxt, c)
    \/ ProducerRemove(NameTxt)

NextIgnored ==
    CacheManager \/ Producer \/ ProducerOther \/ Watcher \/ SelfhostedRun

SpecIgnored == InitIgnored /\ [][NextIgnored]_vars

\* C30: the Watcher's step for a notification about a file that is not a
\* tarball changes neither CacheDir nor the Watcher's position nor the
\* channel; sync_cache does not list the file, no extraction reads it, and
\* CacheDir never holds a directory for it.
C30_NonTarballIgnored ==
    [][/\ (/\ pc["watcher"] = "w_recv"
           /\ fsq # <<>>
           /\ fsq' = Tail(fsq)
           /\ Head(fsq).path = NameTxt) => UNCHANGED <<cache, pc, xt, chan, nSent>>
       /\ \A b \in DOMAIN sc'.tarballs : sc'.tarballs[b] # NameTxt
       /\ \A t \in Threads : xt'[t].name # NameTxt
       /\ DOMAIN cache' \subseteq {Root, <<"b1">>}]_vars

\* The Watcher is about to receive the notification of the file's removal,
\* after startup over an ArtifactDir that held the file.
C30_Witness ==
    /\ pc["watcher"] = "w_recv"
    /\ fsq # <<>> /\ Head(fsq) = FileEvent("Remove", NameTxt)
    /\ pc["main"] = "sh_accept"
    /\ NameB1 \in DOMAIN artifacts
    /\ <<"b1">> \in DOMAIN cache


\* C31: every BuildId sync_cache derives from a tarball name is non-empty,
\* and no extract_to is given CacheDir itself as its directory.
C31_BuildIdNonEmpty ==
    /\ \A b \in DOMAIN sc.tarballs : b # <<>>
    /\ \A t \in Threads : xt[t].kind # "none" => xt[t].dir # Root


\* A step of delete_bucket_dir in which no remote call returns an error.
DeleteBucketDirStep ==
    /\ pc["main"] = "s3_op"
    /\ be.ops # <<>> /\ Head(be.ops) = "delete"
    /\ (be.ops # be.ops' \/ pc["main"] # pc'["main"])
    /\ faults' = faults

\* C32: delete_bucket_dir of build b removes from the bucket exactly the
\* keys its listing of <prefix>b/ returned and goes on; when the listing is
\* empty it changes nothing and goes on as well.
C32_DeleteListedKeys ==
    [][DeleteBucketDirStep =>
          LET listed == ListObjects(remote, BucketDir(be.cur))
          IN  /\ listed \subseteq {k \in DOMAIN remote : IsPrefix(BucketDir(be.cur), k)}
              /\ DOMAIN remote' = (DOMAIN remote) \ listed
              /\ \A k \in DOMAIN remote' : remote'[k] = remote[k]
              /\ listed = {} => remote' = remote
              /\ pc' = pc /\ be'.ops = Tail(be.ops)]_vars

\* The backend has called delete_bucket_dir for an Update of a build the
\* bucket holds nothing of.
C32_Witness ==
    /\ pc["main"] = "s3_op"
    /\ hist.recvd # <<>>
    /\ hist.recvd[Len(hist.recvd)].kind = "Update"
    /\ hist.calls = <<"delete">>
    /\ remote = <<>>
    /\ hist.synced


\* C33: the Watcher answers a Remove notification for a tarball of build b
\* by removing <CacheDir>/b/, which succeeds whether or not the directory
\* exists, and then sends Delete(b).
C33_RemoveThenDelete ==
    [][/\ (/\ pc["watcher"] = "w_recv"
           /\ fsq # <<>> /\ fsq' = Tail(fsq)
           /\ Head(fsq).kind = "Remove"
           /\ is_artifact_tarball(Head(fsq).path, cfg.salt) # None) =>
             /\ pc'["watcher"] = "w_rmdir"
             /\ xt'["watcher"].dir = is_artifact_tarball(Head(fsq).path, cfg.salt)[1]
       /\ (pc["watcher"] = "w_rmdir" /\ pc'["watcher"] # "w_rmdir") =>
             /\ pc'["watcher"] = "w_send"
             /\ xt'["watcher"] = xt["watcher"] /\ xt["watcher"].kind = "Delete"
             /\ cache' = RemoveDirAll(cache, xt["watcher"].dir)
             /\ xt["watcher"].dir \notin DOMAIN cache'
       /\ (/\ pc["watcher"] = "w_send" /\ pc'["watcher"] # "w_send"
           /\ xt["watcher"].kind = "Delete") =>
             chan' = Append(chan, BuildEvent("Delete", xt["watcher"].dir, nSent + 1))]_vars

\* The Watcher is about to remove the cache directory of a removed tarball
\* and the directory does not exist.
C33_Witness ==
    /\ pc["watcher"] = "w_rmdir"
    /\ xt["watcher"].dir = <<"b1">>
    /\ <<"b1">> \notin DOMAIN cache
    /\ ~Exited


\* C34: while synchronize lists the bucket, the BuildIds collected are those
\* of the pages read so far, a truncated response is followed by a request
\* with its continuation token, and when the listing ends the BuildIds
\* collected are those of every common prefix under the path prefix.
C34_ListingComplete ==
    [][pc["main"] = "s3_sync_list" =>
          LET resp == DelimitedPage(remote, cfg.prefix, be.token)
          IN  /\ be.ids \subseteq RemoteBuildIds
              /\ (resp.is_truncated /\ be' # be) =>
                    /\ pc'["main"] = "s3_sync_list"
                    /\ be'.token = resp.next_token
                    /\ be'.ids = be.ids \cup {BucketBuildId(cfg.prefix, c) :
                                                c \in resp.common_prefixes}
              /\ pc'["main"] = "s3_sync_local" =>
                    /\ ~resp.is_truncated
                    /\ be'.ids = RemoteBuildIds]_vars

\* The listing has ended after more than one response, with two remote
\* builds found.
C34_Witness ==
    /\ pc["main"] = "s3_sync_local"
    /\ be.todo = be.cache_dirs
    /\ Cardinality(DelimitedEntries(remote, cfg.prefix)) > MaxKeys
    /\ be.ids = {<<"b1">>, <<"old">>}
    /\ be.ids = RemoteBuildIds


\* C35: as long as no remote call has failed, run has not returned an error.
C35_RunNeverFails ==
    hist.failed = 0 => pc["main"] # "exit_err"


\* The backend is not in the middle of the remote calls of a build: it waits
\* for an event, or run has returned.
BackendAtRest == Exited \/ pc["main"] = "s3_recv"

\* C36: whenever the backend is at rest, a failed upload included, a remote
\* sentinel of build b that equals the local sentinel of a complete entry b
\* stands over exactly the keys of the entry's regular files.
C36_RemoteSentinelSound ==
    BackendAtRest =>
        \A d \in LocalBuildIds :
            (/\ \E c \in Contents : cache[d] = Complete(c)
             /\ GetObject(remote, ChecksumKey(d)) = Some(cache[d].sum))
                => RemoteKeys(d) = LocalKeys(d)


(***************************************************************************)
(* C37: the Watcher and tarballs that go away.                             *)
(***************************************************************************)
\* C37: the Watcher thread never stops, whatever the producer creates,
\* rewrites or removes while a notification waits or is being handled.
C37_WatcherStaysAlive == pc["watcher"] # "panicked"


(***************************************************************************)
(* C38: what handling one build changes in CacheDir.                       *)
(***************************************************************************)
\* Every CacheEntry other than d is the same after the step.
OtherEntriesKept(d) ==
    \A e \in LocalBuildIds \ {d} : e \in DOMAIN cache' /\ cache'[e] = cache[e]

\* A step of extract_to on thread t, or of the Watcher's maybe_remove_dir.
HandlingStep(t) ==
    /\ pc[t] \in {"x_rm", "x_mkdir", "x_unpack", "x_sum", "w_rmdir"}
    /\ pc'[t] # pc[t]

\* C38: every step of extract_to, in sync_cache or in the Watcher, and the
\* Watcher's removal for a Remove notification, changes no CacheEntry but
\* the one of the build it handles.
C38_OnlyOwnEntryChanges ==
    [][\A t \in Threads : HandlingStep(t) => OtherEntriesKept(xt[t].dir)]_vars


\* The same for builds whose BuildId is not empty.
OnlyOwnEntryChangesForNamedBuilds ==
    [][\A t \in Threads :
          (HandlingStep(t) /\ xt[t].dir # Root) => OtherEntriesKept(xt[t].dir)]_vars


(***************************************************************************)
(* C39: the keys a remote delete or upload touches.  The S3 backend in its *)
(* event loop while the producer writes b1.tar.gz and a file named         *)
(* ".tar.gz".                                                              *)
(***************************************************************************)
ProducerBare ==
    \/ \E c \in Contents : ProducerWrite(NameBare, c)
    \/ ProducerRemove(NameBare)

NextBareLoop ==
    Producer \/ ProducerBare \/ WatcherLoop \/ WatcherRemoveDir \/ S3EventLoop

SpecBareLoop == InitEmptyLoop /\ [][NextBareLoop]_vars

\* The keys whose presence or body differs between the two states.
TouchedKeys ==
    {k \in (DOMAIN remote) \cup (DOMAIN remote') :
        \/ k \notin DOMAIN remote
        \/ k \notin DOMAIN remote'
        \/ remote[k] # remote'[k]}

\* C39: every step of delete_bucket_dir or upload_cache_dir for build b
\* touches only keys that start with <prefix>b/.
C39_OnlyOwnKeysTouched ==
    [][pc["main"] = "s3_op" =>
          \A k \in TouchedKeys : IsPrefix(BucketDir(be.cur), k)]_vars

\* The same for builds whose BuildId is not empty.
OnlyOwnKeysTouchedForNamedBuilds ==
    [][(pc["main"] = "s3_op" /\ be.cur # Root) =>
          \A k \in TouchedKeys : IsPrefix(BucketDir(be.cur), k)]_vars


(***************************************************************************)
(* C40: BuildIds of distinct tarball names.                                *)
(***************************************************************************)
\* C40: once sync_cache has listed ArtifactDir, no two distinct tarball
\* names of the directory have the same BuildId, and every tarball is the
\* one recorded for its BuildId.
C40_BuildIdInjective ==
    pc["main"] = "sync_tarballs" =>
        \A n, m \in DOMAIN artifacts :
            (/\ is_artifact_tarball(n, cfg.salt) # None
             /\ is_artifact_tarball(m, cfg.salt) # None
             /\ n # m)
                => /\ is_artifact_tarball(n, cfg.salt) # is_artifact_tarball(m, cfg.salt)
                   /\ sc.tarballs[is_artifact_tarball(n, cfg.salt)[1]] = n

====
